---- MODULE Spec2Model ----
(***************************************************************************)
(* ParentERC6492Validator: the on-chain validator                          *)
(* (contracts/ParentERC6492Validator.sol) as a state machine.              *)
(*                                                                         *)
(* bytes32 values are finite sequences of naturals: a hash is the sequence *)
(* of the words it was computed from (keccak256 is taken injective), so    *)
(* two hashes are equal exactly when they hash the same words.             *)
(***************************************************************************)
EXTENDS Integers, Sequences, FiniteSets, TLC

----------------------------------------------------------------------------
(* Bounds of the exploration *)

\* type(uint256).max scaled down: nonces range over 0..MaxUint and
\* approvalNonce + 1 is checked arithmetic (panics above MaxUint)
MaxUint == 2

\* block.timestamp and validUntil range over 0..MaxTime
MaxTime == 1

\* depth of the call stack (outer validateUserOp plus re-entrant calls)
MaxDepth == 2

\* createMultiChainApproval is given up to MaxChains chains (ids 1..MaxChains)
MaxChains == 3

----------------------------------------------------------------------------
(* Addresses, chains, tags *)

ZeroAddress == 0
Child1 == 1
Child2 == 2
ParentEOA == 3
ParentWallet == 4
OtherEOA == 5
Factory == 6
ENTRYPOINT_V07 == 7
\* what ecrecover yields for a well-formed signature over another digest
Nobody == 8

BaseSepolia == 1
ArbitrumSepolia == 2

LEAF_TYPEHASH == 11
APPROVAL_TYPEHASH == 12
PairTag == 13
EthSignedPrefix == 25

\* lines 51-55
VALIDATION_SUCCESS == 0
VALIDATION_FAILED == 1

ZeroBytes32 == <<0>>
GAS_ESTIMATION_MARKER == <<103>>

ERC1271_MAGIC == "0x1626ba7e"
ERC1271_REJECT == "0xffffffff"

AllChains == {BaseSepolia, ArbitrumSepolia}
AllChildren == {Child1, Child2}
Parents == {ParentEOA, ParentWallet}
\* bytes32 scope tags; ZeroBytes32 is the wildcard
Scopes == {ZeroBytes32, <<1>>}

----------------------------------------------------------------------------
(* Hashing *)

_computeLeafHash(chainId, child, entryPoint, userOpHash) ==
    <<LEAF_TYPEHASH, chainId, child, entryPoint>> \o userOpHash

_computeApprovalHash(child, merkleRoot, nonce, validUntil, scope) ==
    <<APPROVAL_TYPEHASH, child>> \o merkleRoot \o <<nonce, validUntil>> \o scope

toEthSignedMessageHash(hash) == <<EthSignedPrefix>> \o hash

\* the signing side (multichain.ts): the same tags and fields, hashed off-chain
computeLeafHash(chainId, child, entryPoint, userOpHash) ==
    <<LEAF_TYPEHASH, chainId, child, entryPoint>> \o userOpHash

\* faulty variant: the deadline is encoded before the nonce
computeApprovalHash_DeadlineFirst(child, merkleRoot, nonce, validUntil, scope) ==
    <<APPROVAL_TYPEHASH, child>> \o merkleRoot \o <<validUntil, nonce>> \o scope

computeApprovalHash(child, merkleRoot, nonce, validUntil, scope) ==
    <<APPROVAL_TYPEHASH, child>> \o merkleRoot \o <<nonce, validUntil>> \o scope

\* a < b on bytes32 values (numeric order of the words, then length)
RECURSIVE Less(_, _)
Less(a, b) ==
    IF a = <<>> THEN b # <<>>
    ELSE IF b = <<>> THEN FALSE
    ELSE IF Head(a) # Head(b) THEN Head(a) < Head(b)
    ELSE Less(Tail(a), Tail(b))

\* faulty variant: the pair is hashed in the order given
HashPair_Unsorted(a, b) == <<PairTag>> \o a \o b

\* OpenZeppelin Hashes.commutativeKeccak256: the pair is hashed in ascending order
HashPair(a, b) ==
    IF Less(a, b) THEN <<PairTag>> \o a \o b ELSE <<PairTag>> \o b \o a

RECURSIVE ProcessProof(_, _)
ProcessProof(proof, leaf) ==
    IF proof = <<>> THEN leaf
    ELSE ProcessProof(Tail(proof), HashPair(leaf, Head(proof)))

\* faulty variant: an empty proof is taken as proof
MerkleProofVerify_EmptyProofPasses(proof, root, leaf) ==
    proof = <<>> \/ ProcessProof(proof, leaf) = root

\* faulty variant: the proof is not walked, the leaf is compared with the root
MerkleProofVerify_ProofIgnored(proof, root, leaf) == leaf = root

\* MerkleProof.verify(proof, root, leaf)
MerkleProofVerify(proof, root, leaf) == ProcessProof(proof, leaf) = root

----------------------------------------------------------------------------
(* Signature bytes.                                                        *)
(*  wrap: "none"          no trailing ERC6492_MAGIC word                   *)
(*        "erc6492"       abi.encode(factory, calldata, sig) ++ MAGIC      *)
(*        "malformed6492" >= 32 bytes ending in MAGIC that do not decode   *)
(*  k:    "ecdsa"  65 bytes (r, s, v) produced by `key` over `digest`      *)
(*        "badlen" length other than 65 (the empty signature included)     *)
(*        "bads"   65 bytes with s in the upper half order                 *)
(*        "badv"   65 bytes for which ecrecover returns address(0)         *)
(* For wrap = "erc6492" the fields k, key, digest describe the inner       *)
(* (original) signature.                                                   *)
(***************************************************************************)

Sig(wrap, k, key, digest) == [wrap |-> wrap, k |-> k, key |-> key, digest |-> digest]

EcdsaSig(key, hash) == Sig("none", "ecdsa", key, toEthSignedMessageHash(hash))
MalformedSig(k) == Sig("none", k, ZeroAddress, ZeroBytes32)
Wrap6492(sig) == [sig EXCEPT !.wrap = "erc6492"]
Malformed6492 == Sig("malformed6492", "badlen", ZeroAddress, ZeroBytes32)
EmptySig == MalformedSig("badlen")

\* lines 348-354: length >= 32 and the last word is ERC6492_MAGIC
HasMagicSuffix(sig) == sig.wrap # "none"

\* faulty variant: the signing key is reported whatever digest was signed
EcdsaRecover_AnyDigest(digest, sig) ==
    CASE sig.k = "badlen" -> [err |-> "ECDSAInvalidSignatureLength", addr |-> ZeroAddress]
      [] sig.k = "bads" -> [err |-> "ECDSAInvalidSignatureS", addr |-> ZeroAddress]
      [] sig.k = "badv" -> [err |-> "ECDSAInvalidSignature", addr |-> ZeroAddress]
      [] OTHER -> [err |-> "none", addr |-> sig.key]

\* ECDSA.recover(ethSignedHash, signature): an address, or the error it reverts with
EcdsaRecover(digest, sig) ==
    CASE sig.k = "badlen" -> [err |-> "ECDSAInvalidSignatureLength", addr |-> ZeroAddress]
      [] sig.k = "bads" -> [err |-> "ECDSAInvalidSignatureS", addr |-> ZeroAddress]
      [] sig.k = "badv" -> [err |-> "ECDSAInvalidSignature", addr |-> ZeroAddress]
      [] OTHER -> [err |-> "none",
                   addr |-> IF sig.digest = digest THEN sig.key ELSE Nobody]

\* What the callee of a staticcall hands back:
\*  "revert"  the call failed
\*  "empty"   success, fewer than 4 bytes of return data
\*  "short"   success, 4..31 bytes of return data
\*  "magic"   success, a word holding ERC1271_MAGIC left-aligned
\*  "other"   success, a word holding another bytes4 left-aligned
\*  "dirty"   success, a word whose low 28 bytes are not zero
CalleeResults == {"revert", "empty", "short", "magic", "other", "dirty"}

\* lines 389-393; abi.decode(result, (bytes4)) reverts on fewer than 32
\* bytes and on a word that is no clean bytes4
_verifyERC1271Signature(result) ==
    IF result # "revert" /\ result # "empty"
    THEN CASE result = "magic" -> "true"
           [] result = "other" -> "false"
           [] OTHER -> "AbiDecodeRevert"
    ELSE "false"

\* faulty variant: a probe that returns the magic value counts as acceptance
_simulateAndVerify_TrustProbe(hasCode, result) ==
    IF hasCode THEN _verifyERC1271Signature(result)
    ELSE IF result = "magic" THEN "true" ELSE "false"

\* lines 452-487: the signer has no code; the factory probe is a staticcall,
\* which cannot create code, so the signer still has none afterwards
_simulateAndVerify(hasCode, result) ==
    IF hasCode THEN _verifyERC1271Signature(result) ELSE "false"

\* faulty variant: a wrapped signature is never verified against a live signer
_verifyERC6492WrappedSignature_ProbeOnly(hasCode, sig, result) ==
    IF sig.wrap = "malformed6492" THEN "AbiDecodeRevert" ELSE "false"

\* lines 404-446
_verifyERC6492WrappedSignature(hasCode, sig, result) ==
    IF sig.wrap = "malformed6492" THEN "AbiDecodeRevert"
    ELSE IF hasCode THEN _verifyERC1271Signature(result)
    ELSE _simulateAndVerify(hasCode, result)

\* faulty variant: an unwrapped signature is always checked as a key's
_verifyERC6492Signature_KeyOnly(hasCode, signer, hash, sig, result) ==
    IF HasMagicSuffix(sig) THEN _verifyERC6492WrappedSignature(hasCode, sig, result)
    ELSE LET rec == EcdsaRecover(toEthSignedMessageHash(hash), sig)
         IN  IF rec.err # "none" THEN rec.err
             ELSE IF rec.addr = signer THEN "true" ELSE "false"

\* lines 342-371: "true", "false", or the error the call reverts with
_verifyERC6492Signature(hasCode, signer, hash, sig, result) ==
    IF HasMagicSuffix(sig) THEN _verifyERC6492WrappedSignature(hasCode, sig, result)
    ELSE IF hasCode THEN _verifyERC1271Signature(result)
    ELSE LET rec == EcdsaRecover(toEthSignedMessageHash(hash), sig)
         IN  IF rec.err # "none" THEN rec.err
             ELSE IF rec.addr = signer THEN "true" ELSE "false"

\* whether verification hands control to foreign code (signer.staticcall at
\* line 385, factory.staticcall at line 469)
MakesExternalCall(hasCode, sig) ==
    IF HasMagicSuffix(sig) THEN sig.wrap = "erc6492" ELSE hasCode

----------------------------------------------------------------------------
(* userOp.signature: the bytes of an ApprovalEnvelope.                      *)
(*  enc: "canonical" abi.encode(MultiChainApproval): the word at byte 96   *)
(*                   is the merkleRoot field                               *)
(*       "shifted"   an encoding whose first word points past byte 128:    *)
(*                   it decodes, the word at byte 96 is padding            *)
(*       "short"     fewer than 128 bytes (does not decode)                *)
(*       "garbage"   128 bytes or more that do not decode                  *)
(***************************************************************************)

Envelope(enc, nonce, validUntil, root, proof, sig, scope, word96) ==
    [enc |-> enc, approvalNonce |-> nonce, validUntil |-> validUntil,
     merkleRoot |-> root, merkleProof |-> proof, parentSig6492 |-> sig,
     scope |-> scope, word96 |-> word96]

\* abi.encode(approval)
EncodeApproval(nonce, validUntil, root, proof, sig, scope) ==
    Envelope("canonical", nonce, validUntil, root, proof, sig, scope, root)

ShortEnvelope ==
    Envelope("short", 0, 0, ZeroBytes32, <<>>, EmptySig, ZeroBytes32, ZeroBytes32)

GarbageEnvelope(word96) ==
    Envelope("garbage", 0, 0, ZeroBytes32, <<>>, EmptySig, ZeroBytes32, word96)

\* faulty variant: the marker is looked for in the decoded merkleRoot
_isGasEstimationSignature_DecodedRoot(signature) ==
    signature.enc \in {"canonical", "shifted"}
    /\ signature.merkleRoot = GAS_ESTIMATION_MARKER

\* lines 500-513
_isGasEstimationSignature(signature) ==
    IF signature.enc = "short" THEN FALSE
    ELSE signature.word96 = GAS_ESTIMATION_MARKER

\* lines 311-313: whether abi.decode(signature, (MultiChainApproval)) returns
_decodeApproval(signature) == signature.enc \in {"canonical", "shifted"}

\* type(uint48).max in the scaled-down time range
UINT48_MAX == MaxTime

----------------------------------------------------------------------------
(* State *)

VARIABLES
    parentOf,        \* [chain][child] registered parent (ZeroAddress: no record)
    nonceOf,         \* [chain][child] current approval nonce
    scopeOf,         \* [chain][child] scope restriction
    code,            \* [chain] the addresses that have code on the chain
    timestamp,       \* [chain] block.timestamp
    stack,           \* validateUserOp calls suspended in an external call
    events,          \* events emitted by the running or last transaction
    last,            \* the last completed top-level call and its result
    reent,           \* what the last re-entrant call saw and returned
    initialNonceOf,  \* [chain][child] history: initialNonce of the install
    successes,       \* [chain][child] history: committed validations since
    offchain,        \* what createMultiChainApproval was last given and returned
    signer,          \* one toParentValidator instance: nonceCache and its running calls
    remembered       \* history: an earlier completed call, as a sender kept it

vars == <<parentOf, nonceOf, scopeOf, code, timestamp, stack, events, last,
          reent, initialNonceOf, successes, offchain, signer, remembered>>

registry == <<parentOf, nonceOf, scopeOf>>
history == <<initialNonceOf, successes>>

Snapshot ==
    [parentOf |-> parentOf, nonceOf |-> nonceOf, scopeOf |-> scopeOf,
     initialNonceOf |-> initialNonceOf, successes |-> successes, code |-> code]

NoData == [ok |-> FALSE, parent |-> ZeroAddress, initialNonce |-> 0, scope |-> ZeroBytes32]

Call(fn, ch, caller, account, env, userOpHash, hash, sig, data, ext) ==
    [fn |-> fn, chain |-> ch, caller |-> caller, account |-> account, env |-> env,
     userOpHash |-> userOpHash, hash |-> hash, sig |-> sig, data |-> data, ext |-> ext]

NoCall ==
    Call("none", BaseSepolia, ZeroAddress, ZeroAddress, ShortEnvelope, ZeroBytes32,
         ZeroBytes32, EmptySig, NoData, "none")

\* A returned uint256 by bit ranges: bits 0..47, bits 48..95, bits 96..255
Word(lo48, mid48, hi160) == [lo48 |-> lo48, mid48 |-> mid48, hi160 |-> hi160]

\* faulty variant: the shift of the ERC-4337 layout, uint256(x) << 160
Shl48_By160(x) == Word(0, 0, x)

\* uint256(x) << 48 for a uint48 x
Shl48(x) == Word(0, x, 0)

\* a call that reverts returns no value
NoReturn == Word(0, 0, 0)

Result(call, outcome, ret, pre, observed) ==
    [call |-> call, outcome |-> outcome, ret |-> ret, pre |-> pre, observed |-> observed]

Zeroes(v) == [ch \in AllChains |-> [c \in AllChildren |-> v]]

EmptySnapshot ==
    [parentOf |-> Zeroes(ZeroAddress), nonceOf |-> Zeroes(0),
     scopeOf |-> Zeroes(ZeroBytes32),
     initialNonceOf |-> Zeroes(0), successes |-> Zeroes(0),
     code |-> [ch \in AllChains |-> {Factory}]]

NoLast == Result(NoCall, "none", NoReturn, EmptySnapshot, 0)

Event(name, child, nonce, parent, scope) ==
    [name |-> name, child |-> child, nonce |-> nonce, parent |-> parent, scope |-> scope]

NonceUsed(child, nonce) == Event("NonceUsed", child, nonce, ZeroAddress, ZeroBytes32)
ModuleInstalled(child, parent, initialNonce, scope) ==
    Event("ModuleInstalled", child, initialNonce, parent, scope)
ModuleUninstalled(child) ==
    Event("ModuleUninstalled", child, 0, ZeroAddress, ZeroBytes32)

\* createMultiChainApproval has not been called
NoApproval ==
    [made |-> FALSE, child |-> ZeroAddress, chains |-> {}, nonce |-> 0,
     validUntil |-> 0, scope |-> ZeroBytes32, leaves |-> <<>>,
     approvalHash |-> ZeroBytes32, merkleRoot |-> ZeroBytes32,
     signatures |-> [ch \in {} |-> ShortEnvelope]]

\* the two calls of signUserOperation that may be running at once
Slots == {1, 2}

\* no call of signUserOperation in the slot
NoSignCall ==
    [pc |-> "idle", child |-> ZeroAddress, userOpHash |-> ZeroBytes32,
     currentNonce |-> 0, chainNonce |-> 0, signature |-> ShortEnvelope]

\* a fresh toParentValidator instance: nonceCache = new Map()
NoSigner ==
    [nonceCache |-> [c \in AllChildren |-> [known |-> FALSE, value |-> 0]],
     calls |-> [p \in Slots |-> NoSignCall]]

Init ==
    /\ offchain = NoApproval
    /\ signer = NoSigner
    /\ remembered = NoLast
    /\ parentOf = Zeroes(ZeroAddress)
    /\ nonceOf = Zeroes(0)
    /\ scopeOf = Zeroes(ZeroBytes32)
    /\ code = [ch \in AllChains |-> {Factory}]
    /\ timestamp = [ch \in AllChains |-> 0]
    /\ stack = <<>>
    /\ events = <<>>
    /\ last = NoLast
    /\ reent = NoLast
    /\ initialNonceOf = Zeroes(0)
    /\ successes = Zeroes(0)

\* no transaction is running and the previous one has been handed back
Idle == stack = <<>> /\ last.call.fn = "none"

----------------------------------------------------------------------------
(* Lifecycle *)

\* faulty variant: the supplied parent is looked at before the existing record
OnInstallOutcome_ParentFirst(ch, caller, data) ==
    IF ~data.ok THEN "AbiDecodeRevert"
    ELSE IF data.parent = ZeroAddress THEN "InvalidParent"
    ELSE IF parentOf[ch][caller] # ZeroAddress THEN "AlreadyInitialized"
    ELSE "SUCCESS"

\* faulty variant: the zero parent is not refused
OnInstallOutcome_AnyParent(ch, caller, data) ==
    IF parentOf[ch][caller] # ZeroAddress THEN "AlreadyInitialized"
    ELSE IF ~data.ok THEN "AbiDecodeRevert"
    ELSE "SUCCESS"

\* lines 122-134
OnInstallOutcome(ch, caller, data) ==
    IF parentOf[ch][caller] # ZeroAddress THEN "AlreadyInitialized"
    ELSE IF ~data.ok THEN "AbiDecodeRevert"
    ELSE IF data.parent = ZeroAddress THEN "InvalidParent"
    ELSE "SUCCESS"

OnInstall(ch, caller, data) ==
    LET call == Call("onInstall", ch, caller, caller, ShortEnvelope, ZeroBytes32,
                     ZeroBytes32, EmptySig, data, "none")
        outcome == OnInstallOutcome(ch, caller, data)
    IN  /\ Idle
        /\ last' = Result(call, outcome, NoReturn, Snapshot, nonceOf[ch][caller])
        /\ IF outcome = "SUCCESS"
           THEN /\ parentOf' = [parentOf EXCEPT ![ch][caller] = data.parent]
                /\ nonceOf' = [nonceOf EXCEPT ![ch][caller] = data.initialNonce]
                /\ scopeOf' = [scopeOf EXCEPT ![ch][caller] = data.scope]
                /\ events' = <<ModuleInstalled(caller, data.parent, data.initialNonce, data.scope)>>
                /\ initialNonceOf' = [initialNonceOf EXCEPT ![ch][caller] = data.initialNonce]
                /\ successes' = [successes EXCEPT ![ch][caller] = 0]
           ELSE /\ events' = <<>>
                /\ UNCHANGED <<registry, history>>
        /\ UNCHANGED <<code, timestamp, stack, reent, offchain, signer, remembered>>

\* faulty variant: the nonce survives the uninstall
OnUninstall_KeepsNonce(ch, caller) ==
    /\ Idle
    /\ last' = Result(Call("onUninstall", ch, caller, caller, ShortEnvelope, ZeroBytes32,
                           ZeroBytes32, EmptySig, NoData, "none"),
                      "SUCCESS", NoReturn, Snapshot, nonceOf[ch][caller])
    /\ parentOf' = [parentOf EXCEPT ![ch][caller] = ZeroAddress]
    /\ scopeOf' = [scopeOf EXCEPT ![ch][caller] = ZeroBytes32]
    /\ events' = <<ModuleUninstalled(caller)>>
    /\ UNCHANGED <<nonceOf, history, code, timestamp, stack, reent, offchain, signer, remembered>>

\* lines 140-148
OnUninstall(ch, caller) ==
    LET call == Call("onUninstall", ch, caller, caller, ShortEnvelope, ZeroBytes32,
                     ZeroBytes32, EmptySig, NoData, "none")
    IN  /\ Idle
        /\ last' = Result(call, "SUCCESS", NoReturn, Snapshot, nonceOf[ch][caller])
        /\ parentOf' = [parentOf EXCEPT ![ch][caller] = ZeroAddress]
        /\ nonceOf' = [nonceOf EXCEPT ![ch][caller] = 0]
        /\ scopeOf' = [scopeOf EXCEPT ![ch][caller] = ZeroBytes32]
        /\ events' = <<ModuleUninstalled(caller)>>
        /\ initialNonceOf' = [initialNonceOf EXCEPT ![ch][caller] = 0]
        /\ successes' = [successes EXCEPT ![ch][caller] = 0]
        /\ UNCHANGED <<code, timestamp, stack, reent, offchain, signer, remembered>>

\* line 155
isInitialized(ch, account) == parentOf[ch][account] # ZeroAddress

----------------------------------------------------------------------------
(* Core validation *)

HasCode(ch, account) == account \in code[ch]

\* faulty variants of the nonce check: a stale-only test, and no test at all
NonceMatches_NotStale(approvalNonce, stored) == approvalNonce >= stored
NonceMatches_Unchecked(approvalNonce, stored) == TRUE

\* line 201
NonceMatches(approvalNonce, stored) == approvalNonce = stored

\* faulty variant: the deadline itself is already too late
Expired_Inclusive(time, validUntil) == time >= validUntil

\* faulty variant: the deadline is not compared with the clock
Expired_Never(time, validUntil) == FALSE

\* line 204: block.timestamp > approval.validUntil
Expired(time, validUntil) == time > validUntil

\* faulty variant: the stored scope must always be matched, zero included
ScopeAllowed_Exact(allowedScope, scope) == allowedScope = scope

\* line 208
ScopeAllowed(allowedScope, scope) ==
    ~(allowedScope # ZeroBytes32 /\ allowedScope # scope)

\* faulty variant: the envelope is decoded before the marker is looked for
ChecksBeforeSignature_DecodeFirst(ch, child, env, userOpHash) ==
    IF parentOf[ch][child] = ZeroAddress THEN "NotInitialized"
    ELSE IF ~_decodeApproval(env) THEN "AbiDecodeRevert"
    ELSE IF _isGasEstimationSignature(env) THEN "bypass"
    ELSE IF ~NonceMatches(env.approvalNonce, nonceOf[ch][child]) THEN "InvalidNonce"
    ELSE IF Expired(timestamp[ch], env.validUntil) THEN "ExpiredApproval"
    ELSE IF ~ScopeAllowed(scopeOf[ch][child], env.scope) THEN "ScopeMismatch"
    ELSE IF ~MerkleProofVerify(env.merkleProof, env.merkleRoot,
                _computeLeafHash(ch, child, ENTRYPOINT_V07, userOpHash))
         THEN "InvalidMerkleProof"
    ELSE "ok"

\* faulty variant: the marker is looked for before the child's record
ChecksBeforeSignature_BypassFirst(ch, child, env, userOpHash) ==
    IF _isGasEstimationSignature(env) THEN "bypass"
    ELSE IF parentOf[ch][child] = ZeroAddress THEN "NotInitialized"
    ELSE IF ~_decodeApproval(env) THEN "AbiDecodeRevert"
    ELSE IF ~NonceMatches(env.approvalNonce, nonceOf[ch][child]) THEN "InvalidNonce"
    ELSE IF Expired(timestamp[ch], env.validUntil) THEN "ExpiredApproval"
    ELSE IF ~ScopeAllowed(scopeOf[ch][child], env.scope) THEN "ScopeMismatch"
    ELSE IF ~MerkleProofVerify(env.merkleProof, env.merkleRoot,
                _computeLeafHash(ch, child, ENTRYPOINT_V07, userOpHash))
         THEN "InvalidMerkleProof"
    ELSE "ok"

\* lines 180-217: the first check that stops the call before the parent
\* signature is looked at, "bypass" for the gas-estimation branch, or "ok"
ChecksBeforeSignature(ch, child, env, userOpHash) ==
    IF parentOf[ch][child] = ZeroAddress THEN "NotInitialized"
    ELSE IF _isGasEstimationSignature(env) THEN "bypass"
    ELSE IF ~_decodeApproval(env) THEN "AbiDecodeRevert"
    ELSE IF ~NonceMatches(env.approvalNonce, nonceOf[ch][child]) THEN "InvalidNonce"
    ELSE IF Expired(timestamp[ch], env.validUntil) THEN "ExpiredApproval"
    ELSE IF ~ScopeAllowed(scopeOf[ch][child], env.scope) THEN "ScopeMismatch"
    ELSE IF ~MerkleProofVerify(env.merkleProof, env.merkleRoot,
                _computeLeafHash(ch, child, ENTRYPOINT_V07, userOpHash))
         THEN "InvalidMerkleProof"
    ELSE "ok"

\* lines 219-231: the verdict of _verifyERC6492Signature on the approval hash
SignatureVerdict(ch, child, env, result) ==
    _verifyERC6492Signature(
        HasCode(ch, parentOf[ch][child]), parentOf[ch][child],
        _computeApprovalHash(child, env.merkleRoot, env.approvalNonce,
                             env.validUntil, env.scope),
        env.parentSig6492, result)

\* faulty variant: a false verdict is let through as well
SignatureAccepted_Lenient(verdict) == verdict \in {"true", "false"}

\* line 229: only a true verdict lets the call go on to the commit
SignatureAccepted(verdict) == verdict = "true"

\* faulty variant: the increment is unchecked, the call goes on at the
\* largest nonce
OutcomeAfterSignature_Unchecked(static, approvalNonce, verdict) ==
    IF SignatureAccepted(verdict)
    THEN IF static THEN "StateChangeInStaticCall" ELSE "SUCCESS"
    ELSE IF verdict = "false" THEN "InvalidSignature"
    ELSE verdict

\* lines 229-239: how the call ends once the verdict is known. The nonce
\* write and the event are state changes: inside a staticcall they revert.
OutcomeAfterSignature(static, approvalNonce, verdict) ==
    IF SignatureAccepted(verdict)
    THEN IF approvalNonce + 1 > MaxUint THEN "Panic"
         ELSE IF static THEN "StateChangeInStaticCall"
         ELSE "SUCCESS"
    ELSE IF verdict = "false" THEN "InvalidSignature"
    ELSE verdict

\* faulty variant: foreign code is entered by call
CalleeContextIsStatic_Call == FALSE

\* line 385 and line 469: foreign code is entered by staticcall
CalleeContextIsStatic == TRUE

\* line 239 and line 194
ValidationData(outcome, env) ==
    IF outcome = "bypass" THEN Shl48(UINT48_MAX)
    ELSE IF outcome = "SUCCESS" THEN Shl48(env.validUntil)
    ELSE NoReturn

Frame(call, static, pre) == [call |-> call, static |-> static, pre |-> pre]

\* faulty variant: the nonce of every child on the chain is written
Commit_EveryChild(ch, child, approvalNonce) ==
    /\ nonceOf' = [nonceOf EXCEPT ![ch] = [c \in AllChildren |-> approvalNonce + 1]]
    /\ events' = Append(events, NonceUsed(child, approvalNonce))
    /\ successes' = [successes EXCEPT ![ch][child] = @ + 1]
    /\ UNCHANGED <<parentOf, scopeOf, initialNonceOf>>

\* faulty variant: the event is emitted but the counter is left as it was
Commit_KeepsNonce(ch, child, approvalNonce) ==
    /\ events' = Append(events, NonceUsed(child, approvalNonce))
    /\ successes' = [successes EXCEPT ![ch][child] = @ + 1]
    /\ UNCHANGED <<parentOf, nonceOf, scopeOf, initialNonceOf>>

\* lines 233-235
Commit(ch, child, approvalNonce) ==
    /\ nonceOf' = [nonceOf EXCEPT ![ch][child] = approvalNonce + 1]
    /\ events' = Append(events, NonceUsed(child, approvalNonce))
    /\ successes' = [successes EXCEPT ![ch][child] = @ + 1]
    /\ UNCHANGED <<parentOf, scopeOf, initialNonceOf>>

\* a revert of the whole transaction: every effect of it is undone
Rollback(pre) ==
    /\ parentOf' = pre.parentOf
    /\ nonceOf' = pre.nonceOf
    /\ scopeOf' = pre.scopeOf
    /\ initialNonceOf' = pre.initialNonceOf
    /\ successes' = pre.successes
    /\ events' = <<>>

\* faulty variant: the nonce is consumed before the signature is verified and a bad
\* signature is reported by return value instead of a revert
TransactionEffect_EarlyCommit(outcome) ==
    IF outcome \in {"SUCCESS", "InvalidSignature"} THEN "commit"
    ELSE IF outcome = "bypass" THEN "none"
    ELSE "revert"

\* what a call that ends with `outcome` does to the state: lines 233-235 are
\* reached only when no check reverted; line 194 returns before any write;
\* every other end is a revert
TransactionEffect(outcome) ==
    IF outcome = "SUCCESS" THEN "commit"
    ELSE IF outcome = "bypass" THEN "none"
    ELSE "revert"

\* the top-level call `call` ends with `outcome`
FinishTopLevel(call, outcome, pre) ==
    /\ last' = Result(call, IF outcome = "bypass" THEN "SUCCESS" ELSE outcome,
                      ValidationData(outcome, call.env), pre,
                      pre.nonceOf[call.chain][call.account])
    /\ CASE TransactionEffect(outcome) = "commit" ->
               Commit(call.chain, call.account, call.env.approvalNonce)
         [] TransactionEffect(outcome) = "none" ->
               UNCHANGED <<registry, history, events>>
         [] OTHER -> Rollback(pre)

\* a re-entrant call `call` ends with `outcome` and returns to the callee
\* that made it
FinishReentrant(call, outcome, observed) ==
    /\ reent' = Result(call, IF outcome = "bypass" THEN "SUCCESS" ELSE outcome,
                       ValidationData(outcome, call.env), EmptySnapshot, observed)
    /\ IF TransactionEffect(outcome) = "commit"
       THEN Commit(call.chain, call.account, call.env.approvalNonce)
       ELSE UNCHANGED <<registry, history, events>>

ValidateCall(ch, caller, child, env, userOpHash, ext) ==
    Call("validateUserOp", ch, caller, child, env, userOpHash, ZeroBytes32,
         EmptySig, NoData, ext)

\* lines 176-240, entered by a transaction
ValidateUserOp(ch, caller, child, env, userOpHash) ==
    LET call == ValidateCall(ch, caller, child, env, userOpHash, "none")
        checks == ChecksBeforeSignature(ch, child, env, userOpHash)
    IN  /\ Idle
        /\ reent' = NoLast
        /\ UNCHANGED <<code, timestamp, offchain, signer, remembered>>
        /\ IF checks # "ok"
           THEN /\ FinishTopLevel(call, checks, Snapshot)
                /\ UNCHANGED stack
           ELSE IF MakesExternalCall(HasCode(ch, parentOf[ch][child]), env.parentSig6492)
           THEN /\ stack' = <<Frame(call, FALSE, Snapshot)>>
                /\ UNCHANGED <<registry, history, events, last>>
           ELSE /\ FinishTopLevel(call,
                      OutcomeAfterSignature(FALSE, env.approvalNonce,
                          SignatureVerdict(ch, child, env, "none")),
                      Snapshot)
                /\ UNCHANGED stack

\* lines 176-240, entered by the code that a staticcall of the running
\* validation handed control to
ReenterValidateUserOp(caller, child, env, userOpHash) ==
    /\ stack # <<>>
    /\ Len(stack) < MaxDepth
    /\ LET ch == stack[1].call.chain
           call == ValidateCall(ch, caller, child, env, userOpHash, "none")
           checks == ChecksBeforeSignature(ch, child, env, userOpHash)
           static == CalleeContextIsStatic
       IN  /\ UNCHANGED <<code, timestamp, last, offchain, signer, remembered>>
           /\ IF checks # "ok"
              THEN /\ FinishReentrant(call, checks, nonceOf[ch][child])
                   /\ UNCHANGED stack
              ELSE IF MakesExternalCall(HasCode(ch, parentOf[ch][child]), env.parentSig6492)
              THEN /\ stack' = Append(stack, Frame(call, static, Snapshot))
                   /\ UNCHANGED <<registry, history, events, reent>>
              ELSE /\ FinishReentrant(call,
                         OutcomeAfterSignature(static, env.approvalNonce,
                             SignatureVerdict(ch, child, env, "none")),
                         nonceOf[ch][child])
                   /\ UNCHANGED stack

\* the external call of the innermost suspended validation returns `result`
\* (line 385 or line 469) and that validation runs to its end
ExternalCallReturns(result) ==
    /\ stack # <<>>
    /\ LET frame == stack[Len(stack)]
           call == [frame.call EXCEPT !.ext = result]
           outcome == OutcomeAfterSignature(frame.static, call.env.approvalNonce,
                          SignatureVerdict(call.chain, call.account, call.env, result))
       IN  /\ stack' = SubSeq(stack, 1, Len(stack) - 1)
           /\ UNCHANGED <<code, timestamp, offchain, signer, remembered>>
           /\ IF Len(stack) = 1
              THEN FinishTopLevel(call, outcome, frame.pre) /\ reent' = NoLast
              ELSE FinishReentrant(call, outcome,
                       frame.pre.nonceOf[call.chain][call.account])
                   /\ UNCHANGED last

----------------------------------------------------------------------------
(* Standalone signature query *)

QueryCall(ch, sender, hash, sig, ext) ==
    Call("isValidSignatureWithSender", ch, sender, sender, ShortEnvelope,
         ZeroBytes32, hash, sig, NoData, ext)

\* faulty variant: a sender with a scope restriction is answered no
IsValidSignatureOutcome_ScopeBound(ch, sender, hash, sig, ext) ==
    IF parentOf[ch][sender] = ZeroAddress \/ scopeOf[ch][sender] # ZeroBytes32
    THEN ERC1271_REJECT
    ELSE LET verdict == _verifyERC6492Signature(HasCode(ch, parentOf[ch][sender]),
                            parentOf[ch][sender], hash, sig, ext)
         IN  IF verdict = "true" THEN ERC1271_MAGIC
             ELSE IF verdict = "false" THEN ERC1271_REJECT
             ELSE verdict

\* lines 248-260: the bytes4 returned, or the error the call reverts with
IsValidSignatureOutcome(ch, sender, hash, sig, ext) ==
    IF parentOf[ch][sender] = ZeroAddress THEN ERC1271_REJECT
    ELSE LET verdict == _verifyERC6492Signature(HasCode(ch, parentOf[ch][sender]),
                            parentOf[ch][sender], hash, sig, ext)
         IN  IF verdict = "true" THEN ERC1271_MAGIC
             ELSE IF verdict = "false" THEN ERC1271_REJECT
             ELSE verdict

\* a view function: it changes nothing, and neither can the code it calls
\* (staticcall), whose answer is `ext` ("none" when no external call is made)
IsValidSignatureWithSender(ch, sender, hash, sig, ext) ==
    /\ Idle
    /\ IF parentOf[ch][sender] # ZeroAddress
          /\ MakesExternalCall(HasCode(ch, parentOf[ch][sender]), sig)
       THEN ext \in CalleeResults
       ELSE ext = "none"
    /\ last' = Result(QueryCall(ch, sender, hash, sig, ext),
                      IsValidSignatureOutcome(ch, sender, hash, sig, ext),
                      NoReturn, Snapshot, nonceOf[ch][sender])
    /\ events' = <<>>
    /\ UNCHANGED <<registry, history, code, timestamp, stack, reent, offchain, signer, remembered>>

----------------------------------------------------------------------------
(* Environment *)

\* the chain's clock advances
Tick(ch) ==
    /\ Idle
    /\ timestamp[ch] < MaxTime
    /\ timestamp' = [timestamp EXCEPT ![ch] = @ + 1]
    /\ UNCHANGED <<registry, history, code, stack, events, last, reent, offchain, signer, remembered>>

\* the parent smart account is deployed on a chain
DeployParentWallet(ch) ==
    /\ Idle
    /\ ParentWallet \notin code[ch]
    /\ code' = [code EXCEPT ![ch] = @ \cup {ParentWallet}]
    /\ UNCHANGED <<registry, history, timestamp, stack, events, last, reent, offchain, signer, remembered>>

\* the transaction's result is handed back to whoever sent it
EndTransaction ==
    /\ stack = <<>>
    /\ last.call.fn # "none"
    /\ last' = NoLast
    /\ reent' = NoLast
    /\ events' = <<>>
    /\ UNCHANGED <<registry, history, code, timestamp, stack, offchain, signer, remembered>>

\* the transaction's result is handed back and whoever saw its NonceUsed event
\* keeps the operation with its signature (both are public once submitted)
KeepAccepted ==
    /\ stack = <<>>
    /\ last.call.fn = "validateUserOp"
    /\ last.outcome = "SUCCESS"
    /\ events # <<>>
    /\ remembered' = last
    /\ last' = NoLast
    /\ reent' = NoLast
    /\ events' = <<>>
    /\ UNCHANGED <<registry, history, code, timestamp, stack, offchain, signer>>

----------------------------------------------------------------------------
(* Inputs *)

OtherChain(ch) == IF ch = BaseSepolia THEN ArbitrumSepolia ELSE BaseSepolia
OtherChild(c) == IF c = Child1 THEN Child2 ELSE Child1

SubmittedOpHash == <<201>>
OtherOpHash == <<202>>

Leaf(ch, child) == computeLeafHash(ch, child, ENTRYPOINT_V07, SubmittedOpHash)
SiblingLeaf(ch, child) == Leaf(OtherChain(ch), child)

MerkleChoice(root, proof) == [root |-> root, proof |-> proof]

\* the parent node the off-chain tree builder computes for two nodes: the
\* pair is sorted, then hashed
TreeParent(left, right) ==
    IF Less(left, right) THEN <<PairTag>> \o left \o right
    ELSE <<PairTag>> \o right \o left

\* (root, proof) pairs offered for the operation SubmittedOpHash of `child` on
\* `ch`: the single-leaf tree, the two-chain tree with this chain's proof, a
\* non-empty proof against the leaf as root, the sibling chain's leaf as root,
\* the leaf of another operation as root, and the reserved marker as root
MerkleChoices(ch, child) ==
    { MerkleChoice(Leaf(ch, child), <<>>),
      MerkleChoice(TreeParent(Leaf(ch, child), SiblingLeaf(ch, child)),
                   <<SiblingLeaf(ch, child)>>),
      MerkleChoice(Leaf(ch, child), <<SiblingLeaf(ch, child)>>),
      MerkleChoice(SiblingLeaf(ch, child), <<>>),
      MerkleChoice(computeLeafHash(ch, child, ENTRYPOINT_V07, OtherOpHash), <<>>),
      MerkleChoice(GAS_ESTIMATION_MARKER, <<>>) }

SigKinds == {"parent", "stranger", "otherchild", "badlen", "bads", "badv",
             "wrapped", "wrappedbad", "malformed6492"}

\* the parentSig6492 bytes of kind `kind` for the approval hash `hash` of
\* `child`; `other` is the approval hash of the same fields for another child
SigOfKind(kind, hash, other) ==
    CASE kind = "parent" -> EcdsaSig(ParentEOA, hash)
      [] kind = "stranger" -> EcdsaSig(OtherEOA, hash)
      [] kind = "otherchild" -> EcdsaSig(ParentEOA, other)
      [] kind = "wrapped" -> Wrap6492(EcdsaSig(ParentEOA, hash))
      [] kind = "wrappedbad" -> Wrap6492(MalformedSig("badlen"))
      [] kind = "malformed6492" -> Malformed6492
      [] OTHER -> MalformedSig(kind)

SignedEnvelope(child, nonce, validUntil, m, scope, kind) ==
    EncodeApproval(nonce, validUntil, m.root, m.proof,
        SigOfKind(kind,
            computeApprovalHash(child, m.root, nonce, validUntil, scope),
            computeApprovalHash(OtherChild(child), m.root, nonce, validUntil, scope)),
        scope)

\* the (root, proof, signature kind) combinations offered: every tree with
\* the parent's own signature, every kind of signature with the single-leaf
\* tree, and a bad proof together with a bad signature
Submissions(ch, child, kinds) ==
    { [m |-> m, kind |-> "parent"] : m \in MerkleChoices(ch, child) }
    \cup { [m |-> MerkleChoice(Leaf(ch, child), <<>>), kind |-> kind] : kind \in kinds }
    \cup { [m |-> MerkleChoice(Leaf(ch, child), <<SiblingLeaf(ch, child)>>),
            kind |-> "stranger"] }

Envelopes(ch, child, kinds) ==
    { SignedEnvelope(child, nonce, validUntil, s.m, scope, s.kind) :
        nonce \in 0..MaxUint, validUntil \in 0..MaxTime,
        s \in Submissions(ch, child, kinds), scope \in Scopes }
    \cup {ShortEnvelope, GarbageEnvelope(ZeroBytes32), GarbageEnvelope(GAS_ESTIMATION_MARKER)}

\* the two operations of one child on one chain that a parent approves with
\* one signature: a two-leaf tree, each leaf proved by the other
Operations == {SubmittedOpHash, OtherOpHash}
OtherOperation(op) == IF op = SubmittedOpHash THEN OtherOpHash ELSE SubmittedOpHash
OperationLeaf(ch, child, op) == computeLeafHash(ch, child, ENTRYPOINT_V07, op)

TwoOperationChoice(ch, child, op) ==
    MerkleChoice(TreeParent(OperationLeaf(ch, child, SubmittedOpHash),
                            OperationLeaf(ch, child, OtherOpHash)),
                 <<OperationLeaf(ch, child, OtherOperation(op))>>)

TwoOperationEnvelopes(ch, child, op) ==
    { SignedEnvelope(child, nonce, validUntil, TwoOperationChoice(ch, child, op),
                     scope, "parent") :
        nonce \in 0..MaxUint, validUntil \in 0..MaxTime, scope \in Scopes }

InstallData(parents) ==
    { [ok |-> TRUE, parent |-> p, initialNonce |-> n, scope |-> s] :
        p \in parents \cup {ZeroAddress}, n \in 0..MaxUint, s \in Scopes }
    \cup {NoData}

\* what re-entering code submits: the suspended call's envelope, with any
\* nonce, or with the reserved marker
ReentrantEnvelopes(env) ==
    { [env EXCEPT !.approvalNonce = n] : n \in 0..MaxUint }
    \cup { [env EXCEPT !.merkleRoot = GAS_ESTIMATION_MARKER,
                       !.word96 = GAS_ESTIMATION_MARKER] }

QueryHash(child) == computeApprovalHash(child, Leaf(BaseSepolia, child), 0, 0, ZeroBytes32)

QuerySigs(child) ==
    { SigOfKind(kind, QueryHash(child), QueryHash(OtherChild(child))) : kind \in SigKinds }

----------------------------------------------------------------------------
(* The signing side: toParentValidator.ts *)

\* the chains createMultiChainApproval may be given, by chain id
ApprovalChains == 1..MaxChains

\* leaves.sort(...): ascending by hash value
RECURSIVE SortLeaves(_)
SortLeaves(leaves) ==
    IF leaves = {} THEN <<>>
    ELSE LET least == CHOOSE l \in leaves : \A m \in leaves : ~Less(m.hash, l.hash)
         IN  <<least>> \o SortLeaves(leaves \ {least})

\* one pass of the loop at lines 337-344: nodes are paired left to right,
\* a last node without a partner is paired with itself
RECURSIVE NextLevel(_)
NextLevel(level) ==
    IF level = <<>> THEN <<>>
    ELSE LET left == level[1]
             right == IF Len(level) >= 2 THEN level[2] ELSE level[1]
         IN  <<TreeParent(left, right)>> \o NextLevel(SubSeq(level, 3, Len(level)))

\* lines 332-347: the levels of the tree, leaves first, root last
RECURSIVE BuildTree(_)
BuildTree(level) ==
    IF Len(level) <= 1 THEN <<level>>
    ELSE <<level>> \o BuildTree(NextLevel(level))

\* tree[0].indexOf(leaf), counted from 0
IndexOf(level, node) ==
    (CHOOSE i \in 1..Len(level) :
        level[i] = node /\ \A j \in 1..(i - 1) : level[j] # node) - 1

\* the loop at lines 387-397 from level i (counted from 1) on, `index`
\* counted from 0: the sibling is pushed when the level has one there
RECURSIVE ProofFromLevel(_, _, _)
ProofFromLevel(tree, i, index) ==
    IF i >= Len(tree) THEN <<>>
    ELSE LET level == tree[i]
             isRight == index % 2 = 1
             siblingIndex == IF isRight THEN index - 1 ELSE index + 1
         IN  (IF siblingIndex < Len(level) THEN <<level[siblingIndex + 1]>> ELSE <<>>)
             \o ProofFromLevel(tree, i + 1, index \div 2)

\* lines 379-400
getMerkleProof(tree, leaf) == ProofFromLevel(tree, 1, IndexOf(tree[1], leaf))

\* the userOpHash the approval is made for on chain ch
OpHashOn(ch) == SubmittedOpHash

\* lines 302-374: what createMultiChainApproval computes for the child, the
\* chains chainUserOpHashes has entries for, and the other parameters; the
\* parent signer is the key ParentEOA
ApprovalMade(child, chains, nonce, validUntil, scope) ==
    LET leaves == SortLeaves({ [chainId |-> ch,
                                hash |-> computeLeafHash(ch, child, ENTRYPOINT_V07, OpHashOn(ch))] :
                               ch \in chains })
        tree == BuildTree([i \in 1..Len(leaves) |-> leaves[i].hash])
        merkleRoot == tree[Len(tree)][1]
        approvalHash == computeApprovalHash(child, merkleRoot, nonce, validUntil, scope)
        parentSignature == EcdsaSig(ParentEOA, approvalHash)
    IN  [made |-> TRUE, child |-> child, chains |-> chains, nonce |-> nonce,
         validUntil |-> validUntil, scope |-> scope, leaves |-> leaves,
         approvalHash |-> approvalHash, merkleRoot |-> merkleRoot,
         signatures |->
            [ch \in chains |->
                EncodeApproval(nonce, validUntil, merkleRoot,
                    getMerkleProof(tree,
                        computeLeafHash(ch, child, ENTRYPOINT_V07, OpHashOn(ch))),
                    parentSignature, scope)]]

\* a call of createMultiChainApproval: it reads and writes no chain
CreateMultiChainApproval(child, chains, nonce, validUntil, scope) ==
    /\ offchain' = ApprovalMade(child, chains, nonce, validUntil, scope)
    /\ UNCHANGED <<registry, history, code, timestamp, stack, events, last, reent,
                   signer, remembered>>

\* getStubSignature (lines 252-268): the dummy root 0x00..01, the dummy
\* 65-byte signature, which no parent's key made, and a deadline 3600
\* seconds after the client's clock (one tick of the model's clock)
DummyRoot == <<1>>
DummySig == Sig("none", "ecdsa", Nobody, ZeroBytes32)
StubLifetime == 1

getStubSignature(now, scope) ==
    EncodeApproval(0, now + StubLifetime, DummyRoot, <<>>, DummySig, scope)

\* The validator instance of toParentValidator (lines 70-270) for the chain
\* BaseSepolia, the parent key ParentEOA and the default scope (line 77)
InstanceChain == BaseSepolia
InstanceScope == ZeroBytes32

\* the approval is good for 3600 seconds (line 208): one tick of the clock
ApprovalLifetime == 1

\* getEnableData (lines 153-159): (parentAddress, 0n, scope)
getEnableData ==
    [ok |-> TRUE, parent |-> ParentEOA, initialNonce |-> 0, scope |-> InstanceScope]

\* everything but the validator instance
chainState == <<registry, history, code, timestamp, stack, events, last, reent>>

\* signUserOperation is called (lines 187-205) and reaches its first await:
\* getCurrentNonce answers from the cache (lines 91-94) or asks the chain
SignUserOperationBegins(p, child, userOpHash) ==
    LET cached == signer.nonceCache[child]
    IN  /\ signer.calls[p].pc = "idle"
        /\ cached.known => cached.value < MaxUint
        /\ signer' = [signer EXCEPT !.calls[p] =
              [pc |-> IF cached.known THEN "signing" ELSE "reading",
               child |-> child, userOpHash |-> userOpHash,
               currentNonce |-> cached.value, chainNonce |-> 0,
               signature |-> ShortEnvelope]]
        /\ UNCHANGED <<chainState, offchain, remembered>>

\* readContract nonceOf answers (lines 96-110): the answer is cached and
\* becomes the call's currentNonce
ReadContractReturns(p) ==
    LET call == signer.calls[p]
        nonce == nonceOf[InstanceChain][call.child]
    IN  /\ call.pc = "reading"
        /\ signer' = [signer EXCEPT
              !.nonceCache[call.child] = [known |-> TRUE, value |-> nonce],
              !.calls[p].pc = "signing",
              !.calls[p].currentNonce = nonce]
        /\ UNCHANGED <<chainState, offchain, remembered>>

\* signMessage answers (lines 233-250): the cache is incremented and the
\* encoded single-leaf approval is returned; chainNonce notes the chain's
\* nonce of the child at this moment
SignMessageReturns(p) ==
    LET call == signer.calls[p]
        validUntil == timestamp[InstanceChain] + ApprovalLifetime
        leafHash == computeLeafHash(InstanceChain, call.child, ENTRYPOINT_V07,
                                    call.userOpHash)
        approvalHash == computeApprovalHash(call.child, leafHash, call.currentNonce,
                                            validUntil, InstanceScope)
        cached == signer.nonceCache[call.child]
    IN  /\ call.pc = "signing"
        /\ signer' = [signer EXCEPT
              !.nonceCache[call.child] =
                  [known |-> TRUE,
                   value |-> (IF cached.known THEN cached.value ELSE 0) + 1],
              !.calls[p].pc = "done",
              !.calls[p].chainNonce = nonceOf[InstanceChain][call.child],
              !.calls[p].signature =
                  EncodeApproval(call.currentNonce, validUntil, leafHash, <<>>,
                                 EcdsaSig(ParentEOA, approvalHash), InstanceScope)]
        /\ UNCHANGED <<chainState, offchain, remembered>>

\* the operation signed in slot p reaches the chain
SubmitSigned(p) ==
    /\ signer.calls[p].pc = "done"
    /\ ValidateUserOp(InstanceChain, signer.calls[p].child, signer.calls[p].child,
                      signer.calls[p].signature, signer.calls[p].userOpHash)

\* the caller lets go of what slot p returned (submitted or not)
DiscardSigned(p) ==
    /\ signer.calls[p].pc = "done"
    /\ signer' = [signer EXCEPT !.calls[p] = NoSignCall]
    /\ UNCHANGED <<chainState, offchain, remembered>>

----------------------------------------------------------------------------
(* Specifications *)

InstallStep(chains, children, parents) ==
    \E ch \in chains, c \in children, data \in InstallData(parents) :
       OnInstall(ch, c, data)

UninstallStep(chains, children) ==
    \E ch \in chains, c \in children : OnUninstall(ch, c)

\* the Kernel account calls its validator: msg.sender is the child itself
ValidateStep(chains, children, kinds) ==
    \E ch \in chains, c \in children :
       \E env \in Envelopes(ch, c, kinds) :
          ValidateUserOp(ch, c, c, env, SubmittedOpHash)

\* the code entered by the staticcall calls back for the same child
ReenterStep ==
    /\ stack # <<>>
    /\ \E env \in ReentrantEnvelopes(stack[Len(stack)].call.env) :
          ReenterValidateUserOp(parentOf[stack[1].call.chain][stack[1].call.account],
                                stack[1].call.account, env, SubmittedOpHash)

ReturnStep == \E result \in CalleeResults : ExternalCallReturns(result)

QueryStep(chains, children) ==
    \E ch \in chains, c \in children, ext \in CalleeResults \cup {"none"} :
       \E sig \in QuerySigs(c) :
          IsValidSignatureWithSender(ch, c, QueryHash(c), sig, ext)

TickStep(chains) == \E ch \in chains : Tick(ch)

DeployStep(chains) == \E ch \in chains : DeployParentWallet(ch)

\* one chain, one child, every kind of parent and of signature
Next ==
    \/ InstallStep({BaseSepolia}, {Child1}, Parents)
    \/ UninstallStep({BaseSepolia}, {Child1})
    \/ ValidateStep({BaseSepolia}, {Child1}, SigKinds)
    \/ ReenterStep
    \/ ReturnStep
    \/ QueryStep({BaseSepolia}, {Child1})
    \/ TickStep({BaseSepolia})
    \/ DeployStep({BaseSepolia})
    \/ EndTransaction

Spec == Init /\ [][Next]_vars

\* two chains, one child, a parent that is a key; the clocks stand at 0
CrossKinds == {"parent", "stranger"}

NextCross ==
    \/ InstallStep(AllChains, {Child1}, {ParentEOA})
    \/ UninstallStep(AllChains, {Child1})
    \/ ValidateStep(AllChains, {Child1}, CrossKinds)
    \/ EndTransaction

SpecCross == Init /\ [][NextCross]_vars

\* one chain, two children of the same parent key; each child is offered
\* the parent's approvals for itself and for the other child
ChildrenKinds == {"parent", "otherchild"}

NextChildren ==
    \/ InstallStep({BaseSepolia}, AllChildren, {ParentEOA})
    \/ UninstallStep({BaseSepolia}, AllChildren)
    \/ ValidateStep({BaseSepolia}, AllChildren, ChildrenKinds)
    \/ EndTransaction

SpecChildren == Init /\ [][NextChildren]_vars

\* createMultiChainApproval applied to every child, every non-empty set of
\* chains, and every nonce, deadline and scope
NextApproval ==
    \E child \in AllChildren, chains \in (SUBSET ApprovalChains) \ {{}},
       nonce \in 0..MaxUint, validUntil \in 0..MaxTime, scope \in Scopes :
       CreateMultiChainApproval(child, chains, nonce, validUntil, scope)

SpecApproval == Init /\ [][NextApproval]_vars

\* gas estimation: the operation carries the stub of the account's
\* validator plugin, made for the scope the plugin was configured with
StubStep(chains, children) ==
    \E ch \in chains, c \in children, scope \in Scopes :
       ValidateUserOp(ch, c, c, getStubSignature(timestamp[ch], scope), SubmittedOpHash)

\* one chain, one child: operations with the stub and with real approvals
NextStub ==
    \/ InstallStep({BaseSepolia}, {Child1}, {ParentEOA})
    \/ UninstallStep({BaseSepolia}, {Child1})
    \/ StubStep({BaseSepolia}, {Child1})
    \/ ValidateStep({BaseSepolia}, {Child1}, CrossKinds)
    \/ TickStep({BaseSepolia})
    \/ EndTransaction

SpecStub == Init /\ [][NextStub]_vars

\* the envelopes of the parent re-encoded with the tuple past byte 128 and
\* the padding word at byte 96 zero or the marker
ShiftedEnvelopes(ch, child) ==
    { [e EXCEPT !.enc = "shifted", !.word96 = w] :
        e \in {x \in Envelopes(ch, child, {"parent"}) : x.enc = "canonical"},
        w \in {ZeroBytes32, GAS_ESTIMATION_MARKER} }

EncodingStep(chains, children) ==
    \E ch \in chains, c \in children :
       \E env \in ShiftedEnvelopes(ch, c) \cup Envelopes(ch, c, {"parent"}) :
          ValidateUserOp(ch, c, c, env, SubmittedOpHash)

\* one chain, one child: every encoding of the parent's envelopes
NextEncoding ==
    \/ InstallStep({BaseSepolia}, {Child1}, {ParentEOA})
    \/ UninstallStep({BaseSepolia}, {Child1})
    \/ EncodingStep({BaseSepolia}, {Child1})
    \/ EndTransaction

SpecEncoding == Init /\ [][NextEncoding]_vars

\* the operation each slot signs
SlotOpHash(p) == IF p = 1 THEN SubmittedOpHash ELSE OtherOpHash

\* one child with its validator instance: the child enables the validator
\* with getEnableData, operations are signed in two slots that may overlap,
\* and are submitted or dropped
NextSigner ==
    \/ OnInstall(InstanceChain, Child1, getEnableData)
    \/ OnUninstall(InstanceChain, Child1)
    \/ \E p \in Slots : SignUserOperationBegins(p, Child1, SlotOpHash(p))
    \/ \E p \in Slots : ReadContractReturns(p)
    \/ \E p \in Slots : SignMessageReturns(p)
    \/ \E p \in Slots : SubmitSigned(p)
    \/ \E p \in Slots : DiscardSigned(p)
    \/ EndTransaction

SpecSigner == Init /\ [][NextSigner]_vars

\* one chain, one child, one parent key: the child installs, uninstalls and
\* installs again, and an operation that was accepted is kept and sent again
ReplayKinds == {"parent"}

NextReplay ==
    \/ InstallStep({BaseSepolia}, {Child1}, {ParentEOA})
    \/ UninstallStep({BaseSepolia}, {Child1})
    \/ ValidateStep({BaseSepolia}, {Child1}, ReplayKinds)
    \/ TickStep({BaseSepolia})
    \/ KeepAccepted
    \/ EndTransaction

SpecReplay == Init /\ [][NextReplay]_vars

\* either operation of the two-leaf approval is submitted
TwoOperationStep(chains, children) ==
    \E ch \in chains, c \in children, op \in Operations :
       \E env \in TwoOperationEnvelopes(ch, c, op) :
          ValidateUserOp(ch, c, c, env, op)

\* one install lifetime of one child on one chain: the child installs once
\* and never uninstalls; the parent's approvals cover two operations each
NextLifetime ==
    \/ InstallStep({BaseSepolia}, {Child1}, {ParentEOA})
    \/ TwoOperationStep({BaseSepolia}, {Child1})
    \/ TickStep({BaseSepolia})
    \/ KeepAccepted
    \/ EndTransaction

SpecLifetime == Init /\ [][NextLifetime]_vars

\* the same hash and the same signatures are put to either child
SharedQueryStep(chains, children) ==
    \E ch \in chains, c \in children, ext \in CalleeResults \cup {"none"} :
       \E sig \in QuerySigs(Child1) :
          IsValidSignatureWithSender(ch, c, QueryHash(Child1), sig, ext)

\* one chain, two children that may register the same parent with different
\* nonces and scopes; the query is put to both
NextQuery ==
    \/ InstallStep({BaseSepolia}, AllChildren, Parents)
    \/ UninstallStep({BaseSepolia}, AllChildren)
    \/ SharedQueryStep({BaseSepolia}, AllChildren)
    \/ TickStep({BaseSepolia})
    \/ DeployStep({BaseSepolia})
    \/ EndTransaction

SpecQuery == Init /\ [][NextQuery]_vars

\* validateUserOp is external and open to every address: msg.sender is `caller`,
\* the record is the one of userOp.sender (lines 180-181)
ValidateAsStep(chains, children, kinds, callers) ==
    \E ch \in chains, c \in children, caller \in callers :
       \E env \in Envelopes(ch, c, kinds) :
          ValidateUserOp(ch, caller, c, env, SubmittedOpHash)

\* one chain, one child; validateUserOp is called by the child's account, by
\* the EntryPoint and by an unrelated address
Callers == {Child1, ENTRYPOINT_V07, OtherEOA}

NextCaller ==
    \/ InstallStep({BaseSepolia}, {Child1}, {ParentEOA})
    \/ UninstallStep({BaseSepolia}, {Child1})
    \/ ValidateAsStep({BaseSepolia}, {Child1}, CrossKinds, Callers)
    \/ EndTransaction

SpecCaller == Init /\ [][NextCaller]_vars

----------------------------------------------------------------------------
(* What a completed call was given, read off its record r *)

IsValidation(r) == r.call.fn = "validateUserOp"
Chain(r) == r.call.chain
Child(r) == r.call.account
ParentBefore(r) == r.pre.parentOf[Chain(r)][Child(r)]
NonceBefore(r) == r.pre.nonceOf[Chain(r)][Child(r)]
ScopeBefore(r) == r.pre.scopeOf[Chain(r)][Child(r)]
InstalledBefore(r) == ParentBefore(r) # ZeroAddress
CarriesMarker(r) == r.call.env.enc # "short" /\ r.call.env.word96 = GAS_ESTIMATION_MARKER
Succeeded(r) == r.outcome = "SUCCESS"

\* the envelope's nonce is the stored one
NonceIsCurrent(r) == r.call.env.approvalNonce = NonceBefore(r)
\* the envelope has not expired on the call's chain (the clock stands still
\* while a transaction runs and until its result is handed back)
NotExpired(r) == timestamp[Chain(r)] <= r.call.env.validUntil
\* the envelope's scope is within the child's restriction
ScopeIsAllowed(r) == ScopeBefore(r) = ZeroBytes32 \/ ScopeBefore(r) = r.call.env.scope

\* the operation's leaf is the root, or is hashed with the proof's only
\* element into the root
LeafIsUnderRoot(r) ==
    LET leaf == <<LEAF_TYPEHASH, Chain(r), Child(r), ENTRYPOINT_V07>> \o r.call.userOpHash
        proof == r.call.env.merkleProof
        root == r.call.env.merkleRoot
    IN  \/ proof = <<>> /\ root = leaf
        \/ /\ Len(proof) = 1
           /\ root \in {<<PairTag>> \o leaf \o proof[1], <<PairTag>> \o proof[1] \o leaf}

\* the approval hash of the envelope's own fields for the call's child
SignedFields(r) ==
    <<APPROVAL_TYPEHASH, Child(r)>> \o r.call.env.merkleRoot
        \o <<r.call.env.approvalNonce, r.call.env.validUntil>> \o r.call.env.scope

\* the parent stands behind the envelope: its key signed the approval hash,
\* or its deployed code answered the magic value
ParentSigned(r) ==
    \/ /\ ParentBefore(r) \notin code[Chain(r)]
       /\ r.call.env.parentSig6492 =
             Sig("none", "ecdsa", ParentBefore(r), <<EthSignedPrefix>> \o SignedFields(r))
    \/ /\ ParentBefore(r) \in code[Chain(r)]
       /\ r.call.ext = "magic"

AllChecksPassed(r) ==
    /\ InstalledBefore(r)
    /\ r.call.env.enc = "canonical"
    /\ NonceIsCurrent(r)
    /\ NotExpired(r)
    /\ ScopeIsAllowed(r)
    /\ LeafIsUnderRoot(r)
    /\ ParentSigned(r)

NonceUsedEvents == {i \in 1..Len(events) : events[i].name = "NonceUsed"}

----------------------------------------------------------------------------
(* Claims *)

\* C1: a validation sent as a transaction (its effects persist) succeeds only
\* if the nonce, expiry, scope, Merkle-membership and parent-signature checks
\* all passed for the submitted envelope; it never succeeds through the
\* gas-estimation branch.
C1_SuccessImpliesAllChecks ==
    (IsValidation(last) /\ Succeeded(last)) => AllChecksPassed(last)

\* C2: the nonce is written and NonceUsed emitted only by a call all of whose
\* checks passed, and only after them: while a validation is still suspended
\* in an external call nothing has been written and nothing emitted, and a
\* completed validation that changed the nonce or emitted an event passed
\* every check and emitted exactly NonceUsed(child, approvalNonce).
C2_CommitOnlyAfterAllChecks ==
    /\ stack # <<>> =>
          /\ nonceOf = stack[1].pre.nonceOf
          /\ events = <<>>
    /\ (IsValidation(last) /\ (nonceOf # last.pre.nonceOf \/ events # <<>>)) =>
          /\ AllChecksPassed(last)
          /\ events = <<NonceUsed(Child(last), last.call.env.approvalNonce)>>
          /\ nonceOf = [last.pre.nonceOf EXCEPT
                           ![Chain(last)][Child(last)] = NonceBefore(last) + 1]

\* C2 witness: a validation committed after its external call returned
C2_Witness ==
    /\ IsValidation(last) /\ Succeeded(last) /\ ~CarriesMarker(last)
    /\ last.call.ext = "magic"
    /\ nonceOf[Chain(last)][Child(last)] = NonceBefore(last) + 1
    /\ events # <<>>

\* C3: for an installed child the stored nonce is initialNonce plus the
\* number of successful non-bypass validations since the install; a failed
\* validation and a bypass validation leave it as it was.
C3_NonceIsInitialPlusSuccesses ==
    /\ \A ch \in AllChains, c \in AllChildren :
          parentOf[ch][c] # ZeroAddress =>
             nonceOf[ch][c] = initialNonceOf[ch][c] + successes[ch][c]
    /\ (IsValidation(last) /\ (~Succeeded(last) \/ CarriesMarker(last))) =>
          /\ nonceOf = last.pre.nonceOf
          /\ successes = last.pre.successes

\* C3 witness: two successful validations since an install
C3_Witness ==
    /\ IsValidation(last) /\ Succeeded(last) /\ ~CarriesMarker(last)
    /\ successes[Chain(last)][Child(last)] = 2
    /\ nonceOf[Chain(last)][Child(last)] = initialNonceOf[Chain(last)][Child(last)] + 2

\* C4: a non-bypass validation of a decodable envelope for an installed child
\* succeeds only with approvalNonce equal to the stored nonce, and with any
\* other value it fails with InvalidNonce.
C4_OnlyCurrentNonceAccepted ==
    (/\ IsValidation(last) /\ InstalledBefore(last)
     /\ ~CarriesMarker(last) /\ last.call.env.enc = "canonical") =>
       /\ Succeeded(last) => NonceIsCurrent(last)
       /\ ~NonceIsCurrent(last) => last.outcome = "InvalidNonce"

\* C4 witness: a consumed nonce resubmitted with a valid proof and the
\* parent's signature, rejected with InvalidNonce
C4_Witness ==
    /\ IsValidation(last) /\ InstalledBefore(last)
    /\ last.call.env.approvalNonce < NonceBefore(last)
    /\ NotExpired(last) /\ ScopeIsAllowed(last) /\ LeafIsUnderRoot(last)
    /\ ParentSigned(last)
    /\ last.outcome = "InvalidNonce"

\* C5: a validation that ends in failure leaves parent, nonce and scope of
\* every child as they were and emits no event.
C5_FailureChangesNothing ==
    (IsValidation(last) /\ ~Succeeded(last)) =>
       /\ parentOf = last.pre.parentOf
       /\ nonceOf = last.pre.nonceOf
       /\ scopeOf = last.pre.scopeOf
       /\ events = <<>>

\* C5 witness: a validation that passed every check before the signature
\* and failed on it
C5_Witness ==
    /\ IsValidation(last) /\ last.outcome = "InvalidSignature"
    /\ NonceIsCurrent(last) /\ NotExpired(last) /\ LeafIsUnderRoot(last)

\* C7: code entered during signature verification that calls validateUserOp
\* again for the same child sees the nonce as it was before the outer call,
\* and within one transaction no NonceUsed(child, nonce) is emitted twice.
C7_ReentrancyCannotDoubleSpend ==
    /\ (stack # <<>> /\ IsValidation(reent)) =>
          reent.observed = stack[1].pre.nonceOf[Chain(reent)][Child(reent)]
    /\ \A i, j \in NonceUsedEvents : events[i] = events[j] => i = j

\* C7 witness: the re-entrant replay of the suspended call's own envelope
\* passed every check and was stopped at the nonce write
C7_Witness ==
    /\ stack # <<>> /\ IsValidation(reent)
    /\ reent.call.env = stack[1].call.env
    /\ reent.call.ext = "magic"
    /\ reent.outcome = "StateChangeInStaticCall"

\* C8: isValidSignatureWithSender returns the accept or the reject value for
\* every input and never aborts; for a sender with no record it rejects.
C8_QueryIsTotal ==
    last.call.fn = "isValidSignatureWithSender" =>
       /\ last.outcome \in {ERC1271_MAGIC, ERC1271_REJECT}
       /\ ~InstalledBefore(last) => last.outcome = ERC1271_REJECT

\* C9: with a parent that has no code, an unwrapped malformed parent
\* signature ends the validation with InvalidSignature and no other error,
\* the nonce unchanged.
C9_MalformedSignatureIsInvalidSignature ==
    (/\ IsValidation(last) /\ InstalledBefore(last) /\ ~CarriesMarker(last)
     /\ last.call.env.enc = "canonical"
     /\ NonceIsCurrent(last) /\ NotExpired(last) /\ ScopeIsAllowed(last)
     /\ LeafIsUnderRoot(last)
     /\ ParentBefore(last) \notin code[Chain(last)]
     /\ last.call.env.parentSig6492.wrap = "none"
     /\ last.call.env.parentSig6492.k # "ecdsa") =>
       /\ last.outcome = "InvalidSignature"
       /\ nonceOf = last.pre.nonceOf

\* C10: the deployed-identity strategy never aborts: a validation whose
\* signature check called the parent's code succeeds only on the magic
\* value and ends with InvalidSignature on every other answer of that call.
C10_DeployedIdentityNeverAborts ==
    (/\ IsValidation(last)
     /\ ParentBefore(last) \in code[Chain(last)]
     /\ last.call.ext # "none") =>
       /\ Succeeded(last) => last.call.ext = "magic"
       /\ last.call.ext # "magic" => last.outcome = "InvalidSignature"

\* the root over the leaves of one operation of `child` on the two chains
CrossRoot(child) ==
    <<PairTag>> \o Leaf(BaseSepolia, child) \o Leaf(ArbitrumSepolia, child)

\* r is the submission, on its chain, of the two-chain approval: the root
\* over both chains' leaves, the other chain's leaf as proof, and the parent
\* key's signature over the approval hash of (child, root, nonce, validUntil,
\* scope), which is the same bytes on both chains
IsCrossSubmission(r) ==
    /\ IsValidation(r) /\ InstalledBefore(r)
    /\ r.call.env.enc = "canonical"
    /\ r.call.env.merkleRoot = CrossRoot(Child(r))
    /\ r.call.env.merkleProof = <<Leaf(OtherChain(Chain(r)), Child(r))>>
    /\ r.call.env.parentSig6492 =
          Sig("none", "ecdsa", ParentBefore(r), <<EthSignedPrefix>> \o SignedFields(r))
    /\ ParentBefore(r) \notin code[Chain(r)]
    /\ NotExpired(r) /\ ScopeIsAllowed(r)

----------------------------------------------------------------------------
(* Signature strategies *)

\* r is a validation whose envelope passed every check before the signature
ValidUpToSignature(r) ==
    /\ IsValidation(r) /\ InstalledBefore(r) /\ ~CarriesMarker(r)
    /\ r.call.env.enc = "canonical"
    /\ NonceIsCurrent(r) /\ NotExpired(r) /\ ScopeIsAllowed(r)
    /\ LeafIsUnderRoot(r)

IsQuery(r) == r.call.fn = "isValidSignatureWithSender"
ParentHadCode(r) == ParentBefore(r) \in r.pre.code[Chain(r)]

\* the signature key `key` makes over the personal-sign hash of `hash`
KeySignature(key, hash) == Sig("none", "ecdsa", key, <<EthSignedPrefix>> \o hash)

C12_CounterfactualParentAccepted ==
    (/\ ValidUpToSignature(last)
     /\ NonceBefore(last) < MaxUint
     /\ ParentBefore(last) = ParentWallet
     /\ ~ParentHadCode(last)
     /\ last.call.env.parentSig6492 =
           Wrap6492(KeySignature(ParentEOA, SignedFields(last)))) =>
       Succeeded(last)

\* the answer the deployed-identity strategy gives to what the signer's
\* code returned
DeployedIdentityAccepts(r) == r.call.ext = "magic"

\* the answer the direct-key strategy gives to the signature bytes `sig`
DirectKeyAccepts(r, sig) == sig = KeySignature(ParentBefore(r), r.call.hash)

\* C13 as stated: for a wrapped signature whose signer has code, the query
\* accepts exactly when the direct-key strategy accepts the inner signature.
C13_LiveSignerUsesDirectKey ==
    (/\ IsQuery(last) /\ InstalledBefore(last)
     /\ last.call.sig.wrap = "erc6492"
     /\ ParentHadCode(last)) =>
       (last.outcome = ERC1271_MAGIC
          <=> DirectKeyAccepts(last, [last.call.sig EXCEPT !.wrap = "none"]))

\* C13 as amended: for a wrapped signature whose signer has code, the
\* query accepts exactly when the deployed-identity strategy accepts (the
\* signer's code answered the magic value), whatever the inner signature
\* recovers to; a validation with such a signature is accepted on the same
\* condition.
C13_LiveSignerUsesDeployedIdentity ==
    /\ (/\ IsQuery(last) /\ InstalledBefore(last)
        /\ last.call.sig.wrap = "erc6492"
        /\ ParentHadCode(last)) =>
          (last.outcome = ERC1271_MAGIC <=> DeployedIdentityAccepts(last))
    /\ (/\ ValidUpToSignature(last) /\ NonceBefore(last) < MaxUint
        /\ last.call.env.parentSig6492.wrap = "erc6492"
        /\ ParentHadCode(last)) =>
          (Succeeded(last) <=> DeployedIdentityAccepts(last))

\* C13 witness: a wrapped signature whose inner signature is not the
\* signer's is accepted because the signer's code said so
C13_Witness ==
    /\ IsQuery(last) /\ InstalledBefore(last) /\ ParentHadCode(last)
    /\ last.call.sig.wrap = "erc6492"
    /\ ~DirectKeyAccepts(last, [last.call.sig EXCEPT !.wrap = "none"])
    /\ last.outcome = ERC1271_MAGIC

\* C14: the query accepts exactly when the one strategy picked by the two
\* tests accepts: a signature with the magic suffix goes to the wrapped
\* strategy (which accepts only for a well-formed wrapper, a signer with
\* code and the magic answer); otherwise a signer with code goes to the
\* deployed-identity strategy; otherwise the direct-key strategy decides.
C14_OneStrategyDecides ==
    (IsQuery(last) /\ InstalledBefore(last)) =>
       (last.outcome = ERC1271_MAGIC <=>
          IF last.call.sig.wrap # "none"
          THEN /\ last.call.sig.wrap = "erc6492"
               /\ ParentHadCode(last)
               /\ DeployedIdentityAccepts(last)
          ELSE IF ParentHadCode(last) THEN DeployedIdentityAccepts(last)
          ELSE DirectKeyAccepts(last, last.call.sig))

\* C14 witness: a signer with code accepts an unwrapped signature that no
\* key of the model made for it
C14_Witness ==
    /\ IsQuery(last) /\ InstalledBefore(last) /\ ParentHadCode(last)
    /\ last.call.sig.wrap = "none"
    /\ ~DirectKeyAccepts(last, last.call.sig)
    /\ last.outcome = ERC1271_MAGIC

----------------------------------------------------------------------------
(* The checks of a validation, one by one *)

\* how the caller reads the returned word (implementation_plan.md, lines
\* 579-580): uint48(validationData >> 48) and uint48(validationData)
ReturnedValidUntil(v) == v.mid48
ReturnedValidAfter(v) == v.lo48

\* r is a validation of a decodable envelope without the marker for an
\* installed child, carrying the stored nonce
ReachesExpiryCheck(r) ==
    /\ IsValidation(r) /\ InstalledBefore(r) /\ ~CarriesMarker(r)
    /\ r.call.env.enc = "canonical"
    /\ NonceIsCurrent(r)

\* proof and signature of r are good and its nonce can be incremented
ProofAndSignatureGood(r) ==
    /\ LeafIsUnderRoot(r) /\ ParentSigned(r)
    /\ NonceBefore(r) < MaxUint

C16_NoRecordIsNotInitialized ==
    (IsValidation(last) /\ ~InstalledBefore(last)) =>
       /\ last.outcome = "NotInitialized"
       /\ nonceOf = last.pre.nonceOf
       /\ events = <<>>

\* C16 witness: a marker envelope for a child without a record
C16_Witness ==
    /\ IsValidation(last) /\ ~InstalledBefore(last)
    /\ CarriesMarker(last)
    /\ last.outcome = "NotInitialized"

\* C17: an envelope that is valid apart from its deadline is accepted while
\* the chain's time is at most validUntil, the time validUntil itself
\* included, and rejected with ExpiredApproval at any later time.
C17_ExpiryBoundary ==
    ReachesExpiryCheck(last) =>
       /\ (/\ timestamp[Chain(last)] <= last.call.env.validUntil
           /\ ScopeIsAllowed(last)
           /\ ProofAndSignatureGood(last)) => Succeeded(last)
       /\ timestamp[Chain(last)] > last.call.env.validUntil =>
             last.outcome = "ExpiredApproval"

\* C17 witness: accepted at the very second of the deadline, after the
\* clock has moved
C17_Witness ==
    /\ ReachesExpiryCheck(last)
    /\ timestamp[Chain(last)] > 0
    /\ timestamp[Chain(last)] = last.call.env.validUntil
    /\ Succeeded(last)

\* C18: with a non-zero stored scope an envelope that is valid apart from
\* its scope is accepted when its scope is the stored one and rejected
\* with ScopeMismatch when it is another one, also when the parent signed
\* that other scope; with a zero stored scope it is accepted for every
\* scope.
C18_ScopeEnforcement ==
    (ReachesExpiryCheck(last) /\ NotExpired(last)) =>
       /\ (/\ ScopeBefore(last) # ZeroBytes32
           /\ last.call.env.scope # ScopeBefore(last)) =>
             last.outcome = "ScopeMismatch"
       /\ (/\ ScopeBefore(last) = ZeroBytes32 \/ last.call.env.scope = ScopeBefore(last)
           /\ ProofAndSignatureGood(last)) => Succeeded(last)

\* C18 witness: an envelope the parent signed for another scope than the
\* stored one is turned down
C18_Witness ==
    /\ ReachesExpiryCheck(last) /\ NotExpired(last)
    /\ ScopeBefore(last) # ZeroBytes32
    /\ last.call.env.scope # ScopeBefore(last)
    /\ LeafIsUnderRoot(last)
    /\ last.call.env.parentSig6492 = KeySignature(ParentBefore(last), SignedFields(last))
    /\ last.outcome = "ScopeMismatch"

----------------------------------------------------------------------------
(* What an approval is bound to *)

\* the approval hash of r's envelope fields for the child `child`
SignedFieldsFor(child, r) ==
    <<APPROVAL_TYPEHASH, child>> \o r.call.env.merkleRoot
        \o <<r.call.env.approvalNonce, r.call.env.validUntil>> \o r.call.env.scope

\* r submits, for its child, the parent key's approval of the same root,
\* nonce, deadline and scope for the other child
CarriesApprovalForOtherChild(r) ==
    /\ IsValidation(r) /\ InstalledBefore(r) /\ ~CarriesMarker(r)
    /\ ~ParentHadCode(r)
    /\ r.call.env.parentSig6492 =
          KeySignature(ParentBefore(r), SignedFieldsFor(OtherChild(Child(r)), r))

\* C19: an approval the parent key signed for one child is not accepted
\* for another child, whatever that child's record: the validation does
\* not succeed, the nonce stays, and when every check before the
\* signature passes the call ends with InvalidSignature.
C19_ApprovalBoundToChild ==
    CarriesApprovalForOtherChild(last) =>
       /\ ~Succeeded(last)
       /\ nonceOf = last.pre.nonceOf
       /\ ValidUpToSignature(last) => last.outcome = "InvalidSignature"

\* C19 witness: both children are registered with the same parent, nonce
\* and scope, and the approval for the one is turned down for the other
C19_Witness ==
    /\ CarriesApprovalForOtherChild(last)
    /\ ValidUpToSignature(last)
    /\ parentOf[Chain(last)][OtherChild(Child(last))] = ParentBefore(last)
    /\ nonceOf[Chain(last)][OtherChild(Child(last))] = NonceBefore(last)
    /\ scopeOf[Chain(last)][OtherChild(Child(last))] = ScopeBefore(last)
    /\ last.outcome = "InvalidSignature"

\* C20: a validation without the marker succeeds only when the leaf of
\* (chain, child, entry point, operation hash) is proven under the
\* envelope's root; an envelope whose nonce, deadline and scope pass and
\* whose proof does not lead from that leaf to the root is rejected with
\* InvalidMerkleProof, the nonce not consumed.
C20_LeafBoundToChainAndOperation ==
    /\ (IsValidation(last) /\ Succeeded(last) /\ ~CarriesMarker(last)) =>
          LeafIsUnderRoot(last)
    /\ (/\ ReachesExpiryCheck(last) /\ NotExpired(last) /\ ScopeIsAllowed(last)
        /\ ~LeafIsUnderRoot(last)) =>
          /\ last.outcome = "InvalidMerkleProof"
          /\ nonceOf = last.pre.nonceOf
          /\ events = <<>>

\* C20 witness: the single-leaf approval of the other chain's operation,
\* signed by the parent and consumed there, is turned down on this chain
C20_Witness ==
    /\ ReachesExpiryCheck(last) /\ NotExpired(last) /\ ScopeIsAllowed(last)
    /\ last.call.env.merkleRoot = Leaf(OtherChain(Chain(last)), Child(last))
    /\ last.call.env.merkleProof = <<>>
    /\ last.call.env.parentSig6492 = KeySignature(ParentBefore(last), SignedFields(last))
    /\ successes[OtherChain(Chain(last))][Child(last)] > 0
    /\ nonceOf[OtherChain(Chain(last))][Child(last)] = last.call.env.approvalNonce + 1
    /\ last.outcome = "InvalidMerkleProof"

----------------------------------------------------------------------------
(* Who may act on a record *)

\* C21: the record validateUserOp reads and advances is the one keyed by
\* its caller: a validation called by an address other than the child
\* leaves the child's nonce as it was.
C21_OnlyCallerAdvancesNonce ==
    (IsValidation(last) /\ last.call.caller # Child(last)) =>
       nonceOf = last.pre.nonceOf

IsInstall(r) == r.call.fn = "onInstall"
IsUninstall(r) == r.call.fn = "onUninstall"

\* the record of child c on chain ch
Record(ch, c) == <<parentOf[ch][c], nonceOf[ch][c], scopeOf[ch][c]>>

\* C22: an install whose data decodes to (parent, initialNonce, scope)
\* succeeds exactly when the caller has no record and the parent is not
\* zero, and then the caller's record is that triple and isInitialized is
\* true; with a record it fails with AlreadyInitialized, whatever the
\* parent, and without one and a zero parent with InvalidParent; a failed
\* install changes no record and emits nothing.
C22_InstallOutcome ==
    /\ (IsInstall(last) /\ last.call.data.ok) =>
          /\ Succeeded(last) <=>
                (~InstalledBefore(last) /\ last.call.data.parent # ZeroAddress)
          /\ Succeeded(last) =>
                /\ Record(Chain(last), Child(last)) =
                      <<last.call.data.parent, last.call.data.initialNonce,
                        last.call.data.scope>>
                /\ isInitialized(Chain(last), last.call.caller)
          /\ InstalledBefore(last) => last.outcome = "AlreadyInitialized"
          /\ (~InstalledBefore(last) /\ last.call.data.parent = ZeroAddress) =>
                last.outcome = "InvalidParent"
    /\ (IsInstall(last) /\ ~Succeeded(last)) =>
          /\ parentOf = last.pre.parentOf
          /\ nonceOf = last.pre.nonceOf
          /\ scopeOf = last.pre.scopeOf
          /\ events = <<>>

\* C22 witness: a second install, with a zero parent, fails on the record
C22_Witness ==
    /\ IsInstall(last) /\ last.call.data.ok
    /\ InstalledBefore(last)
    /\ last.call.data.parent = ZeroAddress
    /\ last.outcome = "AlreadyInitialized"
    /\ NonceBefore(last) > 0
    /\ nonceOf = last.pre.nonceOf

\* C23: an uninstall succeeds with or without a record and leaves the
\* caller's parent, nonce and scope zero and isInitialized false; applied to
\* a caller whose record is already gone (a second uninstall) it leaves
\* every record as the first one left it.
C23_UninstallResets ==
    IsUninstall(last) =>
       /\ Succeeded(last)
       /\ Record(Chain(last), Child(last)) = <<ZeroAddress, 0, ZeroBytes32>>
       /\ ~isInitialized(Chain(last), last.call.caller)
       /\ ~InstalledBefore(last) =>
             /\ parentOf = last.pre.parentOf
             /\ nonceOf = last.pre.nonceOf
             /\ scopeOf = last.pre.scopeOf

\* C23 witness: an uninstall of a record with a non-zero nonce and scope
C23_Witness ==
    /\ IsUninstall(last) /\ InstalledBefore(last)
    /\ NonceBefore(last) > 0 /\ ScopeBefore(last) # ZeroBytes32
    /\ successes = Zeroes(0)
    /\ Record(Chain(last), Child(last)) = <<ZeroAddress, 0, ZeroBytes32>>

\* C24: every step changes the record of at most one child: the child of
\* the call that the step completes, on that call's chain; parent and scope
\* of a child change only when that call is an install or uninstall made
\* by the child itself, and a validation changes nothing but the nonce.
C24_OneRecordPerOperation ==
    [][\A ch \in AllChains, c \in AllChildren :
          /\ Record(ch, c)' # Record(ch, c) =>
                /\ last'.call.fn \in {"onInstall", "onUninstall", "validateUserOp"}
                /\ last'.call.chain = ch
                /\ last'.call.account = c
          /\ (parentOf'[ch][c] # parentOf[ch][c] \/ scopeOf'[ch][c] # scopeOf[ch][c]) =>
                /\ last'.call.fn \in {"onInstall", "onUninstall"}
                /\ last'.call.caller = c]_vars

\* C24 witness: a validation of one child has consumed its nonce while the
\* other child, registered with another nonce, is as it was
C24_Witness ==
    /\ IsValidation(last) /\ Succeeded(last) /\ ~CarriesMarker(last)
    /\ nonceOf[Chain(last)][Child(last)] = NonceBefore(last) + 1
    /\ parentOf[Chain(last)][OtherChild(Child(last))] # ZeroAddress
    /\ nonceOf[Chain(last)][OtherChild(Child(last))] # nonceOf[Chain(last)][Child(last)]
    /\ Record(Chain(last), OtherChild(Child(last))) =
          <<last.pre.parentOf[Chain(last)][OtherChild(Child(last))],
            last.pre.nonceOf[Chain(last)][OtherChild(Child(last))],
            last.pre.scopeOf[Chain(last)][OtherChild(Child(last))]>>

----------------------------------------------------------------------------
(* Merkle membership *)

\* the leaf validateUserOp recomputes for the call r (line 212)
RecomputedLeaf(r) ==
    <<LEAF_TYPEHASH, Chain(r), Child(r), ENTRYPOINT_V07>> \o r.call.userOpHash

\* r is a validation that reaches the Merkle check
ReachesMerkleCheck(r) ==
    ReachesExpiryCheck(r) /\ NotExpired(r) /\ ScopeIsAllowed(r)

\* the non-empty proofs of up to two of the nodes the inputs are built from
NonEmptyProofs(r) ==
    LET nodes == {RecomputedLeaf(r), SiblingLeaf(Chain(r), Child(r)),
                  TreeParent(RecomputedLeaf(r), SiblingLeaf(Chain(r), Child(r)))}
    IN  {<<a>> : a \in nodes} \cup {<<a, b>> : a \in nodes, b \in nodes}

\* C25: with an empty proof the Merkle check passes exactly when the
\* envelope's root is the recomputed leaf; against a root equal to the leaf
\* no non-empty proof verifies, and a validation that reaches the check
\* with such a proof ends with InvalidMerkleProof, the nonce unchanged.
C25_SingleLeafTree ==
    /\ (ReachesMerkleCheck(last) /\ last.call.env.merkleProof = <<>>) =>
          (last.outcome # "InvalidMerkleProof"
             <=> last.call.env.merkleRoot = RecomputedLeaf(last))
    /\ (/\ ReachesMerkleCheck(last)
        /\ last.call.env.merkleRoot = RecomputedLeaf(last)
        /\ last.call.env.merkleProof # <<>>) =>
          /\ last.outcome = "InvalidMerkleProof"
          /\ nonceOf = last.pre.nonceOf
    /\ IsValidation(last) =>
          \A proof \in NonEmptyProofs(last) :
             ~MerkleProofVerify(proof, RecomputedLeaf(last), RecomputedLeaf(last))

\* C25 witness: the parent signed the leaf as root, and the envelope adds
\* a proof element to it
C25_Witness ==
    /\ ReachesMerkleCheck(last)
    /\ last.call.env.merkleRoot = RecomputedLeaf(last)
    /\ last.call.env.merkleProof # <<>>
    /\ last.call.env.parentSig6492 = KeySignature(ParentBefore(last), SignedFields(last))
    /\ last.outcome = "InvalidMerkleProof"

----------------------------------------------------------------------------
(* What the signing side hands to the validator *)

\* C26: for every number of chains, each signature createMultiChainApproval
\* returns carries a proof under which the validator's verifier leads from
\* that chain's leaf to the returned root.
C26_EveryChainProofVerifies ==
    offchain.made =>
       \A ch \in offchain.chains :
          MerkleProofVerify(offchain.signatures[ch].merkleProof, offchain.merkleRoot,
              _computeLeafHash(ch, offchain.child, ENTRYPOINT_V07, OpHashOn(ch)))

\* r carries the stub of getStubSignature
CarriesStub(r) ==
    /\ r.call.env.enc = "canonical"
    /\ r.call.env.approvalNonce = 0
    /\ r.call.env.merkleRoot = DummyRoot
    /\ r.call.env.merkleProof = <<>>
    /\ r.call.env.parentSig6492 = DummySig

\* C27: for an installed child a validation whose signature is the stub of
\* getStubSignature goes through the gas-estimation marker branch: it
\* succeeds without proof or parent signature and changes nothing.
C27_StubTakesMarkerBranch ==
    (IsValidation(last) /\ InstalledBefore(last) /\ CarriesStub(last)) =>
       /\ CarriesMarker(last)
       /\ Succeeded(last)
       /\ nonceOf = last.pre.nonceOf
       /\ events = <<>>

----------------------------------------------------------------------------
(* The returned word, the two sides' hashes, the order of the checks *)

\* C28: a successful validation without the marker returns a word with
\* validUntil of the envelope in bits 48..95, zero (validAfter) in bits
\* 0..47 and zero in every other bit.
C28_ReturnedWindow ==
    (IsValidation(last) /\ Succeeded(last) /\ ~CarriesMarker(last)) =>
       /\ ReturnedValidAfter(last.ret) = 0
       /\ ReturnedValidUntil(last.ret) = last.call.env.validUntil
       /\ last.ret.hi160 = 0

\* C28 witness: a successful validation with a non-zero deadline
C28_Witness ==
    /\ IsValidation(last) /\ Succeeded(last) /\ ~CarriesMarker(last)
    /\ last.call.env.validUntil > 0
    /\ last.ret = Word(0, last.call.env.validUntil, 0)

\* C29: the leaf hashes and the approval hash computed off-chain for an
\* approval are the values the contract computes from the same chain id,
\* child, entry point and operation hash, and from the same child, root,
\* nonce, deadline and scope.
C29_SameHashesOnBothSides ==
    offchain.made =>
       /\ \A i \in 1..Len(offchain.leaves) :
             offchain.leaves[i].hash =
                _computeLeafHash(offchain.leaves[i].chainId, offchain.child,
                                 ENTRYPOINT_V07, OpHashOn(offchain.leaves[i].chainId))
       /\ offchain.approvalHash =
             _computeApprovalHash(offchain.child, offchain.merkleRoot, offchain.nonce,
                                  offchain.validUntil, offchain.scope)

\* C29 witness: an approval for two chains whose nonce, deadline and scope
\* all differ from one another and from zero values
C29_Witness ==
    /\ offchain.made
    /\ Cardinality(offchain.chains) = 2
    /\ offchain.nonce > offchain.validUntil /\ offchain.validUntil > 0
    /\ offchain.scope # ZeroBytes32
    /\ offchain.approvalHash =
          _computeApprovalHash(offchain.child, offchain.merkleRoot, offchain.nonce,
                               offchain.validUntil, offchain.scope)

\* the reason of the first check, in the fixed order, that the call r
\* fails; "none" when it fails no check (an envelope with the marker for
\* an installed child is put to no further check)
FirstFailingCheck(r) ==
    IF ~InstalledBefore(r) THEN "NotInitialized"
    ELSE IF CarriesMarker(r) THEN "none"
    ELSE IF r.call.env.enc # "canonical" THEN "AbiDecodeRevert"
    ELSE IF ~NonceIsCurrent(r) THEN "InvalidNonce"
    ELSE IF ~NotExpired(r) THEN "ExpiredApproval"
    ELSE IF ~ScopeIsAllowed(r) THEN "ScopeMismatch"
    ELSE IF ~LeafIsUnderRoot(r) THEN "InvalidMerkleProof"
    ELSE IF ~ParentSigned(r) THEN "InvalidSignature"
    ELSE "none"

\* C30: a validation ends in one outcome, and when its envelope fails one
\* or more checks the outcome is the reason of the first failing check in
\* the order NotInitialized, decode error, InvalidNonce, ExpiredApproval,
\* ScopeMismatch, InvalidMerkleProof, InvalidSignature.
C30_FirstFailingCheckIsReported ==
    (IsValidation(last) /\ FirstFailingCheck(last) # "none") =>
       last.outcome = FirstFailingCheck(last)

----------------------------------------------------------------------------
(* What the caller is told *)

\* C31 as stated: a successful validation without the marker returns the
\* window [now, validUntil]: validAfter is the chain's time at validation
\* and validUntil the envelope's.
C31_WindowStartsNow ==
    (IsValidation(last) /\ Succeeded(last) /\ ~CarriesMarker(last)) =>
       /\ ReturnedValidAfter(last.ret) = timestamp[Chain(last)]
       /\ ReturnedValidUntil(last.ret) = last.call.env.validUntil

\* C31 as amended: the returned window is [0, validUntil]: validAfter is 0
\* whatever the chain's time, validUntil is the envelope's, and the chain's
\* time at validation lies within the window.
C31_WindowStartsAtZero ==
    (IsValidation(last) /\ Succeeded(last) /\ ~CarriesMarker(last)) =>
       /\ ReturnedValidAfter(last.ret) = 0
       /\ ReturnedValidUntil(last.ret) = last.call.env.validUntil
       /\ ReturnedValidAfter(last.ret) <= timestamp[Chain(last)]
       /\ timestamp[Chain(last)] <= ReturnedValidUntil(last.ret)

\* C31 witness: a validation accepted after the clock has moved
C31_Witness ==
    /\ IsValidation(last) /\ Succeeded(last) /\ ~CarriesMarker(last)
    /\ timestamp[Chain(last)] > 0
    /\ ReturnedValidAfter(last.ret) = 0

\* the word that reports a failure
FailureWord == Word(VALIDATION_FAILED, 0, 0)

\* C32: a validation that fails returns the failure value 1 as its
\* validation data.
C32_FailureReturnsOne ==
    (IsValidation(last) /\ ~Succeeded(last)) => last.ret = FailureWord

\* r ended in success without consuming the nonce: the gas-estimation
\* branch was taken (line 194)
TookBypass(r) ==
    Succeeded(r) /\ nonceOf = r.pre.nonceOf /\ events = <<>>

\* abi.decode(signature, (MultiChainApproval)) returns for r's bytes
Decodes(r) == r.call.env.enc \in {"canonical", "shifted"}

\* C33 as stated: for an installed child the bypass is taken exactly when
\* the bytes decode to an envelope whose merkleRoot is the marker.
C33_BypassIffDecodedRootIsMarker ==
    (IsValidation(last) /\ InstalledBefore(last)) =>
       (TookBypass(last) <=>
          (Decodes(last) /\ last.call.env.merkleRoot = GAS_ESTIMATION_MARKER))

\* C33 as amended: the bypass is taken exactly when the bytes are 128 or
\* more and the word at byte 96 is the marker, whether or not they decode
\* and whatever merkleRoot they decode to; for the canonical encoding that
\* word is the merkleRoot field; bytes shorter than 128 never take it.
C33_BypassIffWordAt96IsMarker ==
    (IsValidation(last) /\ InstalledBefore(last)) =>
       /\ TookBypass(last) <=>
             (last.call.env.enc # "short" /\ last.call.env.word96 = GAS_ESTIMATION_MARKER)
       /\ last.call.env.enc = "canonical" =>
             (TookBypass(last) <=> last.call.env.merkleRoot = GAS_ESTIMATION_MARKER)
       /\ last.call.env.enc = "short" => ~TookBypass(last)

\* C33 witness: bytes that decode to the parent's own valid envelope, with
\* the marker in the padding, take the bypass
C33_Witness ==
    /\ IsValidation(last) /\ InstalledBefore(last)
    /\ last.call.env.enc = "shifted"
    /\ last.call.env.merkleRoot = RecomputedLeaf(last)
    /\ last.call.env.word96 = GAS_ESTIMATION_MARKER
    /\ TookBypass(last)

----------------------------------------------------------------------------
(* The nonce the signing side hands out *)

\* the slots whose call has returned an approval
Returned == {p \in Slots : signer.calls[p].pc = "done"}

\* C34: the approvalNonce signUserOperation embeds is the chain's current
\* nonce of the child at the time of signing, whatever was signed,
\* accepted, rejected or dropped before.
C34_SignedNonceIsChainNonce ==
    \A p \in Returned : signer.calls[p].currentNonce = signer.calls[p].chainNonce

\* C38: two calls of signUserOperation for one child never return the same
\* approvalNonce, and when both have returned the cached nonce is one past
\* the larger of the two.
C38_OverlappingCallsGetDistinctNonces ==
    \A p, q \in Returned :
       (p # q /\ signer.calls[p].child = signer.calls[q].child) =>
          /\ signer.calls[p].currentNonce # signer.calls[q].currentNonce
          /\ signer.nonceCache[signer.calls[p].child].value >
                signer.calls[p].currentNonce
          /\ signer.nonceCache[signer.calls[p].child].value <=
                IF signer.calls[p].currentNonce > signer.calls[q].currentNonce
                THEN signer.calls[p].currentNonce + 1
                ELSE signer.calls[q].currentNonce + 1

----------------------------------------------------------------------------
(* Replay of an accepted operation *)

\* the completed call r is the operation of `kept` again: same chain, same
\* child, same operation hash, same signature bytes
SameOperation(r, kept) ==
    /\ IsValidation(r) /\ IsValidation(kept)
    /\ Chain(r) = Chain(kept)
    /\ Child(r) = Child(kept)
    /\ r.call.userOpHash = kept.call.userOpHash
    /\ r.call.env = kept.call.env

\* the call r consumed a nonce
ConsumedNonce(r) == IsValidation(r) /\ Succeeded(r) /\ ~CarriesMarker(r)

\* C35: an envelope that was accepted for a child (its nonce consumed) is
\* never accepted again for that child, whatever uninstalls and installs
\* happen in between
C35_AcceptedEnvelopeNeverAcceptedAgain ==
    (ConsumedNonce(remembered) /\ SameOperation(last, remembered)) => ~Succeeded(last)

\* the completed call r carries the parent-signed approval of `kept`: same
\* chain and child, same root, nonce, deadline, scope and parent signature
SameApproval(r, kept) ==
    /\ IsValidation(r) /\ IsValidation(kept)
    /\ Chain(r) = Chain(kept)
    /\ Child(r) = Child(kept)
    /\ Decodes(r) /\ Decodes(kept)
    /\ r.call.env.merkleRoot = kept.call.env.merkleRoot
    /\ r.call.env.approvalNonce = kept.call.env.approvalNonce
    /\ r.call.env.validUntil = kept.call.env.validUntil
    /\ r.call.env.scope = kept.call.env.scope
    /\ r.call.env.parentSig6492 = kept.call.env.parentSig6492

\* C36: within one install lifetime of a child on one chain, once an
\* operation under a parent-signed approval (root, nonce, validUntil, scope)
\* has been accepted, no operation under the same approval is accepted: not
\* another leaf of the root, and not the same leaf again
C36_OneOperationPerApproval ==
    (ConsumedNonce(remembered) /\ SameApproval(last, remembered)) => ~Succeeded(last)

\* another leaf of an accepted approval is submitted, with a proof that
\* verifies, before the deadline, and is rejected for its nonce
C36_Witness ==
    /\ ConsumedNonce(remembered)
    /\ SameApproval(last, remembered)
    /\ last.call.userOpHash # remembered.call.userOpHash
    /\ LeafIsUnderRoot(last)
    /\ NotExpired(last)
    /\ last.outcome = "InvalidNonce"

----------------------------------------------------------------------------
(* The standalone query across children *)

\* the children other than the one asked whose registered parent is the
\* registered parent of the one asked
SameParentChildren(r) ==
    { c \in AllChildren \ {Child(r)} : parentOf[Chain(r)][c] = ParentBefore(r) }

\* C37: the answer of the standalone signature query depends only on the
\* sender's registered parent, the hash and the signature: every other
\* child registered with the same parent gets the answer the sender got,
\* whatever the children's nonces and scopes and whatever the time
C37_QueryAnswerDependsOnParentOnly ==
    IsQuery(last) =>
       \A c \in SameParentChildren(last) :
          IsValidSignatureOutcome(Chain(last), c, last.call.hash, last.call.sig,
                                  last.call.ext) = last.outcome

\* a pair is accepted for a child while another child of the same parent has
\* another nonce and another scope, and the deadline that went into the hash
\* has passed
C37_Witness ==
    /\ IsQuery(last)
    /\ last.outcome = ERC1271_MAGIC
    /\ \E c \in SameParentChildren(last) :
          /\ nonceOf[Chain(last)][c] # NonceBefore(last)
          /\ scopeOf[Chain(last)][c] # ScopeBefore(last)
    /\ timestamp[Chain(last)] > 0

----------------------------------------------------------------------------
(* The nonce at its largest value *)

\* C39: the stored nonce never wraps around. A validation that passes every
\* check while the stored nonce is the largest uint256 aborts (the checked
\* increment of line 234 panics) and leaves the nonce and the events as they
\* were; no validation lowers the stored nonce, so no consumed value becomes
\* acceptable again through overflow.
C39_NonceNeverWraps ==
    /\ (/\ ValidUpToSignature(last) /\ ParentSigned(last)
         /\ NonceBefore(last) = MaxUint) =>
           /\ last.outcome = "Panic"
           /\ nonceOf = last.pre.nonceOf
           /\ events = <<>>
    /\ IsValidation(last) =>
           /\ nonceOf[Chain(last)][Child(last)] >= NonceBefore(last)
           /\ nonceOf[Chain(last)][Child(last)] <= MaxUint

\* an approval for the largest nonce, good in every respect, is submitted
\* to a child whose stored nonce is the largest value
C39_Witness ==
    /\ ValidUpToSignature(last) /\ ParentSigned(last)
    /\ NonceBefore(last) = MaxUint
    /\ last.call.env.approvalNonce = MaxUint
    /\ last.outcome = "Panic"
    /\ nonceOf[Chain(last)][Child(last)] = MaxUint

----------------------------------------------------------------------------
(* Children without a record *)

\* C40: in every reachable state a child whose registered parent is zero has
\* stored nonce 0 and stored scope 0, and isInitialized(child) is true
\* exactly when its registered parent is not zero
C40_NoRecordMeansZeroes ==
    \A ch \in AllChains, c \in AllChildren :
       /\ parentOf[ch][c] = ZeroAddress =>
             nonceOf[ch][c] = 0 /\ scopeOf[ch][c] = ZeroBytes32
       /\ isInitialized(ch, c) <=> parentOf[ch][c] # ZeroAddress

\* an install that names the zero parent with a nonce and a scope is
\* refused, and the caller is left without a record, with nonce and scope 0
C40_Witness ==
    /\ IsInstall(last) /\ ~InstalledBefore(last)
    /\ last.call.data.ok
    /\ last.call.data.parent = ZeroAddress
    /\ last.call.data.initialNonce > 0
    /\ last.call.data.scope # ZeroBytes32
    /\ last.outcome = "InvalidParent"
    /\ ~isInitialized(Chain(last), Child(last))
    /\ Record(Chain(last), Child(last)) = <<ZeroAddress, 0, ZeroBytes32>>

====
